---- MODULE Spec2Model ----
(***************************************************************************)
(* dotparser: the DOT engine (src/dot/parser.rs) and the PlantUML engine   *)
(* (src/plantuml/parser.rs, src/plantuml/types.rs) as state machines that  *)
(* turn a text into a stream of graph events (src/events.rs).              *)
(*                                                                         *)
(* A Rust string is a sequence of one-character strings, so that trimming, *)
(* searching, slicing and splitting are computed character by character    *)
(* the way the code computes them.  Indices are 0-based as in Rust;        *)
(* Option<T> is the empty sequence (None) or a one-element sequence.       *)
(***************************************************************************)
EXTENDS Integers, Sequences, FiniteSets, TLC

VARIABLES
    engine,             \* "dot" | "plantuml": which entry point was called
    content,            \* DOT: the text, as the sequence of its lines()
    pairs,              \* PlantUML: the text and its parse, [accepted, stmts]
    pc,                 \* position of the call
    i,                  \* index (1-based) of the next line / statement
    events,             \* the local Vec<GraphEvent>
    is_digraph,         \* DOT local
    node_attributes,    \* DOT local: id -> parsed attributes
    stack,              \* DOT nested dialect local: Vec<(String, Option<String>)>
    participant_order,  \* PlantUML local counter
    sequence_number,    \* PlantUML local counter
    participants,       \* PlantUML local: alias -> id
    known_ids,          \* PlantUML local: HashSet of ids that received AddNode
    outcome,            \* "running" | "returned" | "Ok" | "Err" | "panic"
    result,             \* the returned Vec<GraphEvent> (empty while running, on Err and on panic)
    error,              \* Option<String>: the Err payload
    calls,              \* number of entry-point calls begun so far
    first               \* [engine, content, pairs, outcome, result, error] of the first finished call

vars == <<engine, content, pairs, pc, i, events, is_digraph, node_attributes, stack,
          participant_order, sequence_number, participants, known_ids,
          outcome, result, error, calls, first>>

----------------------------------------------------------------------------
(* Option and small helpers *)

None == <<>>
Some(v) == <<v>>
IsSome(o) == Len(o) = 1
IsNone(o) == Len(o) = 0
Unwrap(o) == o[1]

Min(S) == CHOOSE m \in S : \A n \in S : m <= n
Max(S) == CHOOSE m \in S : \A n \in S : m >= n

NoPos == 0 - 1

----------------------------------------------------------------------------
(* str methods of the Rust standard library, as used by the parsers *)

WhiteSpace == {" ", "\t"}

\* s[a..b]
Slice(s, a, b) == SubSeq(s, a + 1, b)
\* s[a..]
SliceFrom(s, a) == SubSeq(s, a + 1, Len(s))

trim(s) ==
    LET keep == {k \in 1..Len(s) : s[k] \notin WhiteSpace}
    IN  IF keep = {} THEN <<>> ELSE SubSeq(s, Min(keep), Max(keep))

trim_matches(s, c) ==
    LET keep == {k \in 1..Len(s) : s[k] # c}
    IN  IF keep = {} THEN <<>> ELSE SubSeq(s, Min(keep), Max(keep))

trim_end_matches(s, c) ==
    LET keep == {k \in 1..Len(s) : s[k] # c}
    IN  IF keep = {} THEN <<>> ELSE SubSeq(s, 1, Max(keep))

starts_with(s, p) == Len(p) <= Len(s) /\ SubSeq(s, 1, Len(p)) = p

\* byte offsets at which p occurs in s
Occurrences(s, p) == {k \in 0..(Len(s) - Len(p)) : SubSeq(s, k + 1, k + Len(p)) = p}

contains(s, p) == Occurrences(s, p) # {}

\* Option<usize> as a number, NoPos for None
find(s, p) == IF Occurrences(s, p) = {} THEN NoPos ELSE Min(Occurrences(s, p))

rfind(s, p) == IF Occurrences(s, p) = {} THEN NoPos ELSE Max(Occurrences(s, p))

RECURSIVE split(_, _)
split(s, c) ==
    LET at == find(s, <<c>>)
    IN  IF at = NoPos THEN <<s>>
        ELSE <<Slice(s, 0, at)>> \o split(SliceFrom(s, at + 1), c)

\* s.split_whitespace().next().unwrap_or("")
split_whitespace_first(s) ==
    LET t == trim(s)
        ws == {k \in 1..Len(t) : t[k] \in WhiteSpace}
    IN  IF ws = {} THEN t ELSE SubSeq(t, 1, Min(ws) - 1)

Upper == <<"A","B","C","D","E","F","G","H","I","J","K","L","M",
           "N","O","P","Q","R","S","T","U","V","W","X","Y","Z">>
Lower == <<"a","b","c","d","e","f","g","h","i","j","k","l","m",
           "n","o","p","q","r","s","t","u","v","w","x","y","z">>

lower_char(c) ==
    IF \E k \in 1..26 : Upper[k] = c
    THEN Lower[CHOOSE k \in 1..26 : Upper[k] = c]
    ELSE c

to_lowercase(s) == [k \in 1..Len(s) |-> lower_char(s[k])]

\* s.replace(p, r), p non-empty: leftmost non-overlapping occurrences
RECURSIVE replace(_, _, _)
replace(s, p, r) ==
    LET at == find(s, p)
    IN  IF at = NoPos THEN s
        ELSE Slice(s, 0, at) \o r \o replace(SliceFrom(s, at + Len(p)), p, r)

Digits == <<"0","1","2","3","4","5","6","7","8","9">>
IsDigit(c) == \E k \in 1..10 : Digits[k] = c
DigitVal(c) == (CHOOSE k \in 1..10 : Digits[k] = c) - 1

RECURSIVE DecimalValue(_)
DecimalValue(s) ==
    IF s = <<>> THEN 0
    ELSE 10 * DecimalValue(SubSeq(s, 1, Len(s) - 1)) + DigitVal(s[Len(s)])

RECURSIVE StripZeros(_)
StripZeros(s) == IF s # <<>> /\ s[1] = "0" THEN StripZeros(Tail(s)) ELSE s

\* the decimal digits of u32::MAX
U32MaxDigits == <<"4","2","9","4","9","6","7","2","9","5">>

RECURSIVE LexLeq(_, _)
LexLeq(a, b) ==
    IF a = <<>> THEN TRUE
    ELSE IF DigitVal(a[1]) # DigitVal(b[1]) THEN DigitVal(a[1]) < DigitVal(b[1])
    ELSE LexLeq(Tail(a), Tail(b))

\* value.parse::<u32>().ok(): an optional '+', then one or more ASCII digits,
\* None when the value exceeds u32::MAX
parse_u32(s) ==
    LET body == IF s # <<>> /\ s[1] = "+" THEN Tail(s) ELSE s
        sig == StripZeros(body)
    IN  IF body = <<>> \/ \E k \in 1..Len(body) : ~IsDigit(body[k]) THEN None
        ELSE IF Len(sig) > Len(U32MaxDigits) THEN None
        ELSE IF Len(sig) = Len(U32MaxDigits) /\ ~LexLeq(sig, U32MaxDigits) THEN None
        ELSE Some(DecimalValue(sig))

\* format!("{n}") of a small unsigned number
RECURSIVE to_string(_)
to_string(n) ==
    IF n < 10 THEN <<Digits[n + 1]>>
    ELSE to_string(n \div 10) \o <<Digits[(n % 10) + 1]>>

\* HashMap::insert
MapInsert(m, k, v) == [x \in (DOMAIN m) \cup {k} |-> IF x = k THEN v ELSE m[x]]
EmptyMap == <<>>

----------------------------------------------------------------------------
(* src/events.rs: the event algebra *)

DefaultProperties == [style |-> None, position |-> None, custom |-> EmptyMap]

Layer(level) == [kind |-> "Layer", n |-> level]
Sequential(order) == [kind |-> "Sequential", n |-> order]

NodeTypeNode == [kind |-> "Node", name |-> <<>>]
NodeTypeCustom(name) == [kind |-> "Custom", name |-> name]
NodeTypeActor(actor_type) == [kind |-> "Actor", name |-> actor_type]
NodeTypeDataStore == [kind |-> "DataStore", name |-> <<>>]
NodeTypeExternal == [kind |-> "External", name |-> <<>>]
NodeTypeProcess == [kind |-> "Process", name |-> <<>>]

EdgeTypeDirected == [kind |-> "Directed", message_type |-> "", sequence |-> None]
EdgeTypeUndirected == [kind |-> "Undirected", message_type |-> "", sequence |-> None]
EdgeTypeMessage(message_type, sequence) ==
    [kind |-> "Message", message_type |-> message_type, sequence |-> sequence]

BatchStart == [type |-> "BatchStart"]
BatchEnd == [type |-> "BatchEnd"]
SetLayout(kind, direction) ==
    [type |-> "SetLayout", layout_type |-> [kind |-> kind, direction |-> direction],
     properties |-> DefaultProperties]
AddNode(id, label, node_type, properties) ==
    [type |-> "AddNode", id |-> id, label |-> label, node_type |-> node_type,
     properties |-> properties]
UpdateNode(id, label, properties) ==
    [type |-> "UpdateNode", id |-> id, label |-> label, properties |-> properties]
AddEdge(id, from, to, edge_type, label, properties) ==
    [type |-> "AddEdge", id |-> id, from |-> from, to |-> to, edge_type |-> edge_type,
     label |-> label, properties |-> properties]

----------------------------------------------------------------------------
(* src/dot/parser.rs, dialect (i): parse_regular_dot *)

\* content.contains(p), p without a line break
content_contains(c, p) == \E k \in 1..Len(c) : contains(c[k], p)

extract_rankdir_line(trimmed) ==
    IF starts_with(trimmed, <<"r","a","n","k","d","i","r">>) /\ find(trimmed, <<"=">>) # NoPos
    THEN Some(trim_matches(trim_end_matches(
                trim(SliceFrom(trimmed, find(trimmed, <<"=">>) + 1)), ";"), "\""))
    ELSE None

extract_rankdir(c) ==
    LET hits == {k \in 1..Len(c) : IsSome(extract_rankdir_line(trim(c[k])))}
    IN  IF hits = {} THEN None ELSE extract_rankdir_line(trim(c[Min(hits)]))

\* mutant: the value is matched without regard to case
rankdir_direction_any_case(rankdir) ==
    CASE rankdir \in {<<"B","T">>, <<"b","t">>, <<"B","t">>, <<"b","T">>} -> "BottomToTop"
      [] rankdir \in {<<"L","R">>, <<"l","r">>, <<"L","r">>, <<"l","R">>} -> "LeftToRight"
      [] rankdir \in {<<"R","L">>, <<"r","l">>, <<"R","l">>, <<"r","L">>} -> "RightToLeft"
      [] OTHER -> "TopToBottom"

rankdir_direction(rankdir) ==
    CASE rankdir = <<"B","T">> -> "BottomToTop"
      [] rankdir = <<"L","R">> -> "LeftToRight"
      [] rankdir = <<"R","L">> -> "RightToLeft"
      [] OTHER -> "TopToBottom"

\* mutant: a text without the directive gets the default direction
layout_events_default(c) ==
    IF IsSome(extract_rankdir(c))
    THEN <<SetLayout("Hierarchical", rankdir_direction(Unwrap(extract_rankdir(c))))>>
    ELSE <<SetLayout("Hierarchical", "TopToBottom")>>

layout_events(c) ==
    IF IsSome(extract_rankdir(c))
    THEN <<SetLayout("Hierarchical", rankdir_direction(Unwrap(extract_rankdir(c))))>>
    ELSE <<>>

\* parse_nodes: the guards of one loop iteration
is_skipped_line(trimmed) == starts_with(trimmed, <<"/","/">>) \/ trimmed = <<>>

is_node_definition(trimmed) ==
    /\ ~is_skipped_line(trimmed)
    /\ contains(trimmed, <<"[">>)
    /\ contains(trimmed, <<"]">>)
    /\ ~contains(trimmed, <<"-",">">>)

\* &trimmed[node_end + 1..trimmed.rfind(']')] aborts when the range is reversed
attrs_slice_panics(trimmed) ==
    is_node_definition(trimmed) /\ find(trimmed, <<"[">>) + 1 > rfind(trimmed, <<"]">>)

NoAttrs == [node_type |-> None, level |-> None, label |-> None, custom |-> EmptyMap]

parse_attr(attr, acc) ==
    LET parts == split(attr, "=")
    IN  IF Len(parts) = 2
        THEN LET key == trim(parts[1])
                 value == trim_matches(trim(parts[2]), "\"")
             IN  CASE key = <<"t","y","p","e">> -> [acc EXCEPT !.node_type = Some(value)]
                   [] key = <<"l","e","v","e","l">> -> [acc EXCEPT !.level = parse_u32(value)]
                   [] key = <<"l","a","b","e","l">> -> [acc EXCEPT !.label = Some(value)]
                   [] OTHER -> [acc EXCEPT !.custom = MapInsert(@, key, value)]
        ELSE acc

RECURSIVE parse_attrs(_, _)
parse_attrs(attrs, acc) ==
    IF attrs = <<>> THEN acc
    ELSE parse_attrs(Tail(attrs), parse_attr(Head(attrs), acc))

node_id_of(trimmed) == trim_matches(trim(Slice(trimmed, 0, find(trimmed, <<"[">>))), "\"")

attrs_of(trimmed) ==
    parse_attrs(split(Slice(trimmed, find(trimmed, <<"[">>) + 1, rfind(trimmed, <<"]">>)), ","),
                NoAttrs)

node_event(node_id, attrs) ==
    AddNode(node_id,
            IF IsSome(attrs.label) THEN attrs.label ELSE Some(node_id),
            IF IsSome(attrs.node_type) THEN NodeTypeCustom(Unwrap(attrs.node_type))
                                       ELSE NodeTypeNode,
            [style |-> None,
             position |-> IF IsSome(attrs.level) THEN Some(Layer(Unwrap(attrs.level)))
                                                 ELSE None,
             custom |-> attrs.custom])

\* parse_nodes, one line: the events pushed
parse_nodes_events(trimmed) ==
    IF is_node_definition(trimmed)
    THEN <<node_event(node_id_of(trimmed), attrs_of(trimmed))>>
    ELSE <<>>

\* parse_nodes, one line: node_attributes afterwards
parse_nodes_attributes(trimmed, attributes) ==
    IF is_node_definition(trimmed)
    THEN MapInsert(attributes, node_id_of(trimmed), attrs_of(trimmed))
    ELSE attributes

\* parse_edges
arrow_of(digraph) == IF digraph THEN <<"-",">">> ELSE <<"-","-">>

is_edge_line(trimmed, digraph) ==
    /\ contains(trimmed, <<"-",">">>) \/ contains(trimmed, <<"-","-">>)
    /\ find(trimmed, arrow_of(digraph)) # NoPos

edge_from(trimmed, digraph) ==
    trim_end_matches(
        trim_matches(trim(Slice(trimmed, 0, find(trimmed, arrow_of(digraph)))), "\""), ";")

edge_to(trimmed, digraph) ==
    LET to_part == SliceFrom(trimmed, find(trimmed, arrow_of(digraph)) + Len(arrow_of(digraph)))
    IN  trim_end_matches(trim_matches(trim(split(to_part, "[")[1]), "\""), ";")

default_node(id) == AddNode(id, Some(id), NodeTypeNode, DefaultProperties)

\* mutant: every edge is marked Directed, whatever the graph
edge_event_always_directed(from, to, digraph) ==
    AddEdge(from \o arrow_of(digraph) \o to, from, to, EdgeTypeDirected,
            None, DefaultProperties)

edge_event(from, to, digraph) ==
    AddEdge(from \o arrow_of(digraph) \o to, from, to,
            IF digraph THEN EdgeTypeDirected ELSE EdgeTypeUndirected,
            None, DefaultProperties)

\* mutant: only the source of an edge is auto-declared
parse_edges_events_from_only(trimmed, attributes, digraph) ==
    IF is_edge_line(trimmed, digraph)
    THEN LET from == edge_from(trimmed, digraph)
             to == edge_to(trimmed, digraph)
         IN  (IF from \in DOMAIN attributes THEN <<>> ELSE <<default_node(from)>>)
             \o <<edge_event(from, to, digraph)>>
    ELSE <<>>

\* parse_edges, one line: the events pushed
parse_edges_events(trimmed, attributes, digraph) ==
    IF is_edge_line(trimmed, digraph)
    THEN LET from == edge_from(trimmed, digraph)
             to == edge_to(trimmed, digraph)
         IN  (IF from \in DOMAIN attributes THEN <<>> ELSE <<default_node(from)>>)
             \o (IF to \in (DOMAIN attributes) \cup {from} THEN <<>> ELSE <<default_node(to)>>)
             \o <<edge_event(from, to, digraph)>>
    ELSE <<>>

\* mutant: the auto-declared endpoints are not recorded
parse_edges_attributes_forgetful(trimmed, attributes, digraph) == attributes

\* parse_edges, one line: node_attributes afterwards
parse_edges_attributes(trimmed, attributes, digraph) ==
    IF is_edge_line(trimmed, digraph)
    THEN MapInsert(MapInsert(attributes, edge_from(trimmed, digraph),
                             IF edge_from(trimmed, digraph) \in DOMAIN attributes
                             THEN attributes[edge_from(trimmed, digraph)] ELSE NoAttrs),
                   edge_to(trimmed, digraph),
                   IF edge_to(trimmed, digraph) \in DOMAIN attributes
                   THEN attributes[edge_to(trimmed, digraph)] ELSE NoAttrs)
    ELSE attributes

----------------------------------------------------------------------------
(* src/dot/parser.rs, dialect (ii): parse_nested_subgraphs_to_events *)

extract_label_value(line) ==
    LET label_start == (IF find(line, <<"=">>) = NoPos THEN 0 ELSE find(line, <<"=">>)) + 1
        label == trim_matches(trim_matches(trim(SliceFrom(line, label_start)), "\""), ";")
    IN  IF find(label, <<":">>) # NoPos
        THEN trim(SliceFrom(label, find(label, <<":">>) + 1))
        ELSE label

extract_node_label(line) ==
    IF find(line, <<"l","a","b","e","l","=">>) = NoPos THEN None
    ELSE LET label_part == SliceFrom(line, find(line, <<"l","a","b","e","l","=">>) + 6)
             first_quote == find(label_part, <<"\"">>)
         IN  IF first_quote = NoPos THEN None
             ELSE LET rest == SliceFrom(label_part, first_quote + 1)
                      second_quote == find(rest, <<"\"">>)
                  IN  IF second_quote = NoPos THEN None
                      ELSE Some(trim(replace(Slice(rest, 0, second_quote), <<"\\","n">>, <<" ">>)))

\* mutant: `site` is tested first
cluster_node_type_site_first(label) ==
    IF contains(to_lowercase(label), <<"s","i","t","e">>)
    THEN NodeTypeCustom(<<"s","i","t","e">>)
    ELSE IF contains(to_lowercase(label), <<"t","e","n","a","n","t">>)
            \/ contains(to_lowercase(label), <<"o","r","g","a","n","i","z","a","t","i","o","n">>)
    THEN NodeTypeCustom(<<"o","r","g","a","n","i","z","a","t","i","o","n">>)
    ELSE IF contains(to_lowercase(label), <<"c","o","n","t","a","c","t"," ","c","e","n","t","e","r">>)
    THEN NodeTypeCustom(<<"l","i","n","e","_","o","f","_","b","u","s","i","n","e","s","s">>)
    ELSE NodeTypeNode

cluster_node_type(label) ==
    IF contains(to_lowercase(label), <<"t","e","n","a","n","t">>) \/ contains(to_lowercase(label), <<"o","r","g","a","n","i","z","a","t","i","o","n">>)
    THEN NodeTypeCustom(<<"o","r","g","a","n","i","z","a","t","i","o","n">>)
    ELSE IF contains(to_lowercase(label), <<"c","o","n","t","a","c","t"," ","c","e","n","t","e","r">>)
    THEN NodeTypeCustom(<<"l","i","n","e","_","o","f","_","b","u","s","i","n","e","s","s">>)
    ELSE IF contains(to_lowercase(label), <<"s","i","t","e">>)
    THEN NodeTypeCustom(<<"s","i","t","e">>)
    ELSE NodeTypeNode

leaf_node_type(label) ==
    IF contains(to_lowercase(label), <<"s","u","p","e","r","v","i","s","o","r">>)
    THEN NodeTypeCustom(<<"t","e","a","m">>)
    ELSE NodeTypeCustom(<<"u","s","e","r">>)

\* the branch of the if / else-if chain that one line takes
nested_branch(trimmed, stk) ==
    IF starts_with(trimmed, <<"s","u","b","g","r","a","p","h">>) THEN "subgraph"
    ELSE IF (starts_with(trimmed, <<"l","a","b","e","l","=">>) \/ starts_with(trimmed, <<"L","a","b","e","l","=">>)) /\ stk # <<>>
    THEN "label"
    ELSE IF contains(trimmed, <<"[">>) /\ contains(trimmed, <<"l","a","b","e","l","=">>) /\ ~contains(trimmed, <<"-",">">>)
    THEN "leaf"
    ELSE IF trimmed = <<"}">> /\ stk # <<>> THEN "close"
    ELSE "ignored"

directed_edge(parent_id, node_id) ==
    AddEdge(parent_id \o <<"-",">">> \o node_id, parent_id, node_id, EdgeTypeDirected, None,
            DefaultProperties)

\* mutant: the parent is looked up in the frame on top, the cluster's own
cluster_parent_own_frame(stk) == IF Len(stk) > 1 THEN stk[Len(stk)].id ELSE None

\* stack.iter().rev().nth(1), guarded by stack.len() > 1
cluster_parent(stk) == IF Len(stk) > 1 THEN stk[Len(stk) - 1].id ELSE None

\* stack.last()
leaf_parent(stk) == IF stk # <<>> THEN stk[Len(stk)].id ELSE None

layer_properties(level) ==
    [style |-> None, position |-> Some(Layer(level)), custom |-> EmptyMap]

cluster_label_events(trimmed, stk) ==
    LET label == extract_label_value(trimmed)
    IN  <<AddNode(label, Some(label), cluster_node_type(label), layer_properties(Len(stk) - 1))>>
        \o (IF IsSome(cluster_parent(stk))
            THEN <<directed_edge(Unwrap(cluster_parent(stk)), label)>>
            ELSE <<>>)

leaf_label(trimmed) ==
    IF IsSome(extract_node_label(trimmed))
    THEN Unwrap(extract_node_label(trimmed))
    ELSE trim_matches(trim(Slice(trimmed, 0, find(trimmed, <<"[">>))), "\"")

leaf_events(trimmed, stk) ==
    LET label == leaf_label(trimmed)
    IN  <<AddNode(label, Some(label), leaf_node_type(label), layer_properties(Len(stk)))>>
        \o (IF IsSome(leaf_parent(stk))
            THEN <<directed_edge(Unwrap(leaf_parent(stk)), label)>>
            ELSE <<>>)

\* one line of the loop: the events pushed
nested_events(trimmed, stk) ==
    CASE nested_branch(trimmed, stk) = "label" -> cluster_label_events(trimmed, stk)
      [] nested_branch(trimmed, stk) = "leaf" -> leaf_events(trimmed, stk)
      [] OTHER -> <<>>

cluster_name(trimmed) == split_whitespace_first(SliceFrom(trimmed, find(trimmed, <<"c","l","u","s","t","e","r","_">>)))

\* one line of the loop: the stack afterwards
nested_stack(trimmed, stk) ==
    CASE nested_branch(trimmed, stk) = "subgraph" ->
            IF find(trimmed, <<"c","l","u","s","t","e","r","_">>) # NoPos
            THEN Append(stk, [cluster |-> cluster_name(trimmed), id |-> None])
            ELSE stk
      [] nested_branch(trimmed, stk) = "label" ->
            [stk EXCEPT ![Len(stk)] = [cluster |-> @.cluster,
                                       id |-> Some(extract_label_value(trimmed))]]
      [] nested_branch(trimmed, stk) = "close" -> SubSeq(stk, 1, Len(stk) - 1)
      [] OTHER -> stk

----------------------------------------------------------------------------
(* The entry point parse_dot_to_events, step by step *)

NoCall == [engine |-> "", content |-> <<>>, pairs |-> <<>>, outcome |-> "",
           result |-> <<>>, error |-> None]

is_nested_format(c) == ~content_contains(c, <<"-",">">>) /\ content_contains(c, <<"s","u","b","g","r","a","p","h">>)

\* lines 19-33: the locals, BatchStart and the dialect sniff
dot_begin ==
    /\ engine = "dot" /\ pc = "start"
    /\ events' = <<BatchStart>>
    /\ node_attributes' = EmptyMap
    /\ stack' = <<>>
    /\ is_digraph' = content_contains(content, <<"d","i","g","r","a","p","h">>)
    /\ pc' = IF is_nested_format(content) THEN "nested" ELSE "regular"
    /\ i' = 1
    /\ UNCHANGED <<engine, content, pairs, participant_order, sequence_number,
                   participants, known_ids, outcome, result, error, calls, first>>

\* parse_regular_dot, lines 47-61: the layout hint
dot_layout ==
    /\ engine = "dot" /\ pc = "regular"
    /\ events' = events \o layout_events(content)
    /\ pc' = "parse_nodes"
    /\ i' = 1
    /\ UNCHANGED <<engine, content, pairs, is_digraph, node_attributes, stack,
                   participant_order, sequence_number, participants, known_ids,
                   outcome, result, error, calls, first>>

\* parse_nodes, one iteration of the loop
parse_nodes_line ==
    /\ engine = "dot" /\ pc = "parse_nodes" /\ i <= Len(content)
    /\ ~attrs_slice_panics(trim(content[i]))
    /\ events' = events \o parse_nodes_events(trim(content[i]))
    /\ node_attributes' = parse_nodes_attributes(trim(content[i]), node_attributes)
    /\ i' = i + 1
    /\ UNCHANGED <<engine, content, pairs, pc, is_digraph, stack, participant_order,
                   sequence_number, participants, known_ids, outcome, result, error,
                   calls, first>>

\* parse_nodes, line 85: the slice aborts the call, the events are lost
parse_nodes_panic ==
    /\ engine = "dot" /\ pc = "parse_nodes" /\ i <= Len(content)
    /\ attrs_slice_panics(trim(content[i]))
    /\ pc' = "done"
    /\ outcome' = "panic"
    /\ events' = <<>>
    /\ UNCHANGED <<engine, content, pairs, i, is_digraph, node_attributes, stack,
                   participant_order, sequence_number, participants, known_ids,
                   result, error, calls, first>>

parse_nodes_end ==
    /\ engine = "dot" /\ pc = "parse_nodes" /\ i > Len(content)
    /\ pc' = "parse_edges"
    /\ i' = 1
    /\ UNCHANGED <<engine, content, pairs, events, is_digraph, node_attributes, stack,
                   participant_order, sequence_number, participants, known_ids,
                   outcome, result, error, calls, first>>

\* parse_edges, one iteration of the loop
parse_edges_line ==
    /\ engine = "dot" /\ pc = "parse_edges" /\ i <= Len(content)
    /\ events' = events \o parse_edges_events(trim(content[i]), node_attributes, is_digraph)
    /\ node_attributes' = parse_edges_attributes(trim(content[i]), node_attributes, is_digraph)
    /\ i' = i + 1
    /\ UNCHANGED <<engine, content, pairs, pc, is_digraph, stack, participant_order,
                   sequence_number, participants, known_ids, outcome, result, error,
                   calls, first>>

parse_edges_end ==
    /\ engine = "dot" /\ pc = "parse_edges" /\ i > Len(content)
    /\ pc' = "finish"
    /\ UNCHANGED <<engine, content, pairs, i, events, is_digraph, node_attributes, stack,
                   participant_order, sequence_number, participants, known_ids,
                   outcome, result, error, calls, first>>

\* parse_nested_subgraphs_to_events, one iteration of the loop
nested_line ==
    /\ engine = "dot" /\ pc = "nested" /\ i <= Len(content)
    /\ events' = events \o nested_events(trim(content[i]), stack)
    /\ stack' = nested_stack(trim(content[i]), stack)
    /\ i' = i + 1
    /\ UNCHANGED <<engine, content, pairs, pc, is_digraph, node_attributes,
                   participant_order, sequence_number, participants, known_ids,
                   outcome, result, error, calls, first>>

nested_end ==
    /\ engine = "dot" /\ pc = "nested" /\ i > Len(content)
    /\ pc' = "finish"
    /\ UNCHANGED <<engine, content, pairs, i, events, is_digraph, node_attributes, stack,
                   participant_order, sequence_number, participants, known_ids,
                   outcome, result, error, calls, first>>

\* lines 35-38: BatchEnd and the return
dot_return ==
    /\ engine = "dot" /\ pc = "finish"
    /\ events' = Append(events, BatchEnd)
    /\ result' = Append(events, BatchEnd)
    /\ outcome' = "returned"
    /\ pc' = "done"
    /\ UNCHANGED <<engine, content, pairs, i, is_digraph, node_attributes, stack,
                   participant_order, sequence_number, participants, known_ids,
                   error, calls, first>>

NextDot ==
    \/ dot_begin
    \/ dot_layout
    \/ parse_nodes_line
    \/ parse_nodes_panic
    \/ parse_nodes_end
    \/ parse_edges_line
    \/ parse_edges_end
    \/ nested_line
    \/ nested_end
    \/ dot_return

----------------------------------------------------------------------------
(* src/plantuml/types.rs: ArrowType *)

\* mutant: an unrecognised token is taken for a plain arrow
parse_arrow_lenient(s) ==
    IF s \in {<<"-",">",">">>, <<"<","<","-">>} THEN Some("SolidAsync") ELSE Some("SolidSync")

parse_arrow(s) ==
    CASE s = <<"-",">">> -> Some("SolidSync")
      [] s = <<"-",">",">">> -> Some("SolidAsync")
      [] s = <<"-","-",">">> -> Some("DashedSync")
      [] s = <<"-","-",">",">">> -> Some("DashedAsync")
      [] s = <<"<","-">> -> Some("LeftSync")
      [] s = <<"<","<","-">> -> Some("LeftAsync")
      [] s = <<"<","-","-">> -> Some("LeftDashedSync")
      [] s = <<"<","<","-","-">> -> Some("LeftDashedAsync")
      [] s = <<"<","-",">">> -> Some("BiDirectional")
      [] s = <<"<","-","-",">">> -> Some("BiDashedDirectional")
      [] s = <<"-","\\">> -> Some("Lost")
      [] s = <<"\\","-">> -> Some("Found")
      [] s = <<"\\","\\">> -> Some("SelfCall")
      [] OTHER -> None

\* mutant: the dashed open-headed arrow counts as asynchronous
to_message_type_by_head(arrow_type) ==
    CASE arrow_type \in {"SolidSync", "LeftSync", "BiDirectional"} -> "Synchronous"
      [] arrow_type \in {"SolidAsync", "LeftAsync", "DashedAsync",
                         "LeftDashedAsync"} -> "Asynchronous"
      [] arrow_type \in {"DashedSync", "LeftDashedSync", "BiDashedDirectional"} -> "Return"
      [] arrow_type \in {"Lost", "Found", "SelfCall"} -> "Synchronous"

to_message_type(arrow_type) ==
    CASE arrow_type \in {"SolidSync", "LeftSync", "BiDirectional"} -> "Synchronous"
      [] arrow_type \in {"SolidAsync", "LeftAsync"} -> "Asynchronous"
      [] arrow_type \in {"DashedSync", "DashedAsync", "LeftDashedSync", "LeftDashedAsync",
                         "BiDashedDirectional"} -> "Return"
      [] arrow_type \in {"Lost", "Found", "SelfCall"} -> "Synchronous"

\* mutant: only the shapes that open with `<` are reversed
is_reversed_left_only(arrow_type) ==
    arrow_type \in {"LeftSync", "LeftAsync", "LeftDashedSync", "LeftDashedAsync"}

is_reversed(arrow_type) ==
    arrow_type \in {"LeftSync", "LeftAsync", "LeftDashedSync", "LeftDashedAsync", "Found"}

----------------------------------------------------------------------------
(* src/plantuml/parser.rs.  The grammar (plantuml/grammar.pest) yields a   *)
(* tree of pairs; a statement is [rule, inner], inner the sequence of its  *)
(* children [rule, text], text the matched token (as_str).                 *)

\* an identifier pair: a quoted string reduces to its inner_string, a
\* simple identifier to its text
extract_identifier(token) ==
    IF Len(token) >= 2 /\ token[1] = "\"" /\ token[Len(token)] = "\""
    THEN Slice(token, 1, Len(token) - 1)
    ELSE token

\* process_participant, lines 100-122: the loop over the inner pairs
RECURSIVE participant_fields(_, _)
participant_fields(inner, acc) ==
    IF inner = <<>> THEN acc
    ELSE participant_fields(Tail(inner),
            CASE Head(inner).rule = "participant_type" ->
                    [acc EXCEPT !.participant_type = Head(inner).text]
              [] Head(inner).rule = "identifier" ->
                    [acc EXCEPT !.id = extract_identifier(Head(inner).text)]
              [] Head(inner).rule = "alias" ->
                    [acc EXCEPT !.alias = Some(extract_identifier(Head(inner).text))]
              [] OTHER -> acc)

participant_of(stmt) ==
    participant_fields(stmt.inner,
                       [participant_type |-> <<"p","a","r","t","i","c","i","p","a","n","t">>, id |-> <<>>, alias |-> None])

\* mutant: the label is always the id
display_name_id_only(p) == p.id

display_name(p) == IF IsSome(p.alias) THEN Unwrap(p.alias) ELSE p.id

participant_node_type(participant_type) ==
    CASE participant_type = <<"a","c","t","o","r">> -> NodeTypeActor(<<"h","u","m","a","n">>)
      [] participant_type = <<"d","a","t","a","b","a","s","e">> -> NodeTypeDataStore
      [] participant_type = <<"e","n","t","i","t","y">> -> NodeTypeExternal
      [] participant_type \in {<<"b","o","u","n","d","a","r","y">>, <<"c","o","n","t","r","o","l">>} -> NodeTypeProcess
      [] OTHER -> NodeTypeActor(participant_type)

sequential_properties(order) ==
    [style |-> None, position |-> Some(Sequential(order)), custom |-> EmptyMap]

participant_event(p, order) ==
    AddNode(p.id, Some(display_name(p)), participant_node_type(p.participant_type),
            sequential_properties(order))

participants_after(p, aliases) ==
    IF IsSome(p.alias) THEN MapInsert(aliases, Unwrap(p.alias), p.id) ELSE aliases

\* process_message, lines 169-196: the loop over the inner pairs
RECURSIVE message_fields(_, _)
message_fields(inner, acc) ==
    IF inner = <<>> THEN acc
    ELSE message_fields(Tail(inner),
            CASE Head(inner).rule = "identifier" ->
                    IF acc.from = <<>>
                    THEN [acc EXCEPT !.from = extract_identifier(Head(inner).text)]
                    ELSE [acc EXCEPT !.to = extract_identifier(Head(inner).text)]
              [] Head(inner).rule = "arrow" -> [acc EXCEPT !.arrow_str = Head(inner).text]
              [] Head(inner).rule = "message_label" -> [acc EXCEPT !.text = trim(Head(inner).text)]
              [] OTHER -> acc)

message_of(stmt) ==
    message_fields(stmt.inner, [from |-> <<>>, to |-> <<>>, arrow_str |-> <<>>, text |-> <<>>])

actual_from(m) == IF is_reversed(Unwrap(parse_arrow(m.arrow_str))) THEN m.to ELSE m.from
actual_to(m) == IF is_reversed(Unwrap(parse_arrow(m.arrow_str))) THEN m.from ELSE m.to

\* participants.get(name).cloned().unwrap_or_else(|| name.clone())
resolve(aliases, name) == IF name \in DOMAIN aliases THEN aliases[name] ELSE name

auto_participant(id, label, order) ==
    AddNode(id, Some(label), NodeTypeActor(<<"p","a","r","t","i","c","i","p","a","n","t">>), sequential_properties(order))

\* mutant: the edge carries the text whether or not it is empty
message_edge_always_labelled(m, from_id, to_id, seq) ==
    AddEdge(<<"m","s","g","-">> \o to_string(seq), from_id, to_id,
            EdgeTypeMessage(to_message_type(Unwrap(parse_arrow(m.arrow_str))), Some(seq)),
            Some(m.text),
            DefaultProperties)

message_edge(m, from_id, to_id, seq) ==
    AddEdge(<<"m","s","g","-">> \o to_string(seq), from_id, to_id,
            EdgeTypeMessage(to_message_type(Unwrap(parse_arrow(m.arrow_str))), Some(seq)),
            IF m.text = <<>> THEN None ELSE Some(m.text),
            DefaultProperties)

\* mutant: the second endpoint is tested against the ids known before the
\* message only
message_auto_nodes_twice(m, aliases, known, order) ==
    LET from_id == resolve(aliases, actual_from(m))
        to_id == resolve(aliases, actual_to(m))
    IN  (IF from_id \notin known
         THEN <<auto_participant(from_id, actual_from(m), order)>> ELSE <<>>)
        \o (IF to_id \notin known
            THEN <<auto_participant(to_id, actual_to(m), order + 1)>> ELSE <<>>)

\* process_message, lines 219-260: the auto-declared endpoints
message_auto_nodes(m, aliases, known, order) ==
    LET from_id == resolve(aliases, actual_from(m))
        to_id == resolve(aliases, actual_to(m))
        first_new == from_id \notin known
        second_new == to_id \notin known \cup {from_id}
    IN  (IF first_new THEN <<auto_participant(from_id, actual_from(m), order)>> ELSE <<>>)
        \o (IF second_new
            THEN <<auto_participant(to_id, actual_to(m), IF first_new THEN order + 1 ELSE order)>>
            ELSE <<>>)

\* process_message: the events pushed by a message whose arrow parses
message_events(m, aliases, known, order, seq) ==
    message_auto_nodes(m, aliases, known, order)
    \o <<message_edge(m, resolve(aliases, actual_from(m)), resolve(aliases, actual_to(m)), seq)>>

\* mutant: a deactivation marks the node activated as well
activation_properties_always_true(value) ==
    [style |-> None, position |-> None, custom |-> MapInsert(EmptyMap, <<"a","c","t","i","v","a","t","e","d">>, <<"t","r","u","e">>)]

activation_properties(value) ==
    [style |-> None, position |-> None, custom |-> MapInsert(EmptyMap, <<"a","c","t","i","v","a","t","e","d">>, value)]

\* process_activation / process_deactivation: one UpdateNode per identifier pair
RECURSIVE activation_events(_, _)
activation_events(inner, value) ==
    IF inner = <<>> THEN <<>>
    ELSE (IF Head(inner).rule = "identifier"
          THEN <<UpdateNode(extract_identifier(Head(inner).text), None,
                            activation_properties(value))>>
          ELSE <<>>)
         \o activation_events(Tail(inner), value)

Stmt == pairs.stmts[i]

\* mutant: the message counter outlives the call
uml_begin_static_sequence ==
    /\ engine = "plantuml" /\ pc = "start"
    /\ events' = <<BatchStart, SetLayout("Sequential", "LeftToRight")>>
    /\ participant_order' = 0
    /\ participants' = EmptyMap
    /\ known_ids' = {}
    /\ pc' = "grammar"
    /\ i' = 1
    /\ UNCHANGED <<engine, content, pairs, is_digraph, node_attributes, stack,
                   sequence_number, outcome, result, error, calls, first>>

\* mutant: the layout hint is left to the first statement
uml_begin_without_layout ==
    /\ engine = "plantuml" /\ pc = "start"
    /\ events' = <<BatchStart>>
    /\ participant_order' = 0
    /\ sequence_number' = 0
    /\ participants' = EmptyMap
    /\ known_ids' = {}
    /\ pc' = "grammar"
    /\ i' = 1
    /\ UNCHANGED <<engine, content, pairs, is_digraph, node_attributes, stack,
                   outcome, result, error, calls, first>>

\* parse, lines 13-28: the locals, BatchStart and the layout hint
uml_begin ==
    /\ engine = "plantuml" /\ pc = "start"
    /\ events' = <<BatchStart, SetLayout("Sequential", "LeftToRight")>>
    /\ participant_order' = 0
    /\ sequence_number' = 0
    /\ participants' = EmptyMap
    /\ known_ids' = {}
    /\ pc' = "grammar"
    /\ i' = 1
    /\ UNCHANGED <<engine, content, pairs, is_digraph, node_attributes, stack,
                   outcome, result, error, calls, first>>

\* parse, lines 30-31: the grammar accepts the input
uml_grammar_accepts ==
    /\ engine = "plantuml" /\ pc = "grammar"
    /\ pairs.accepted
    /\ pc' = "content"
    /\ UNCHANGED <<engine, content, pairs, i, events, is_digraph, node_attributes, stack,
                   participant_order, sequence_number, participants, known_ids,
                   outcome, result, error, calls, first>>

\* parse, lines 30-31: the grammar rejects the input, map_err and ?
uml_grammar_rejects ==
    /\ engine = "plantuml" /\ pc = "grammar"
    /\ ~pairs.accepted
    /\ outcome' = "Err"
    /\ error' = Some(<<"P","a","r","s","e"," ","e","r","r","o","r",":"," ">> \o pairs.diagnostic)
    /\ events' = <<>>
    /\ pc' = "done"
    /\ UNCHANGED <<engine, content, pairs, i, is_digraph, node_attributes, stack,
                   participant_order, sequence_number, participants, known_ids,
                   result, calls, first>>

process_participant ==
    /\ engine = "plantuml" /\ pc = "content" /\ i <= Len(pairs.stmts)
    /\ Stmt.rule = "participant_declaration"
    /\ events' = Append(events, participant_event(participant_of(Stmt), participant_order))
    /\ participants' = participants_after(participant_of(Stmt), participants)
    /\ known_ids' = known_ids \cup {participant_of(Stmt).id}
    /\ participant_order' = participant_order + 1
    /\ i' = i + 1
    /\ UNCHANGED <<engine, content, pairs, pc, is_digraph, node_attributes, stack,
                   sequence_number, outcome, result, error, calls, first>>

process_message ==
    /\ engine = "plantuml" /\ pc = "content" /\ i <= Len(pairs.stmts)
    /\ Stmt.rule = "message"
    /\ IsSome(parse_arrow(message_of(Stmt).arrow_str))
    /\ LET m == message_of(Stmt)
           pushed == message_events(m, participants, known_ids, participant_order,
                                    sequence_number)
       IN  /\ events' = events \o pushed
           /\ known_ids' = known_ids \cup {resolve(participants, actual_from(m)),
                                           resolve(participants, actual_to(m))}
           /\ participant_order' = participant_order + (Len(pushed) - 1)
    /\ sequence_number' = sequence_number + 1
    /\ i' = i + 1
    /\ UNCHANGED <<engine, content, pairs, pc, is_digraph, node_attributes, stack,
                   participants, outcome, result, error, calls, first>>

\* process_message, lines 199-200, and the ? of lines 77 and 44
process_message_unknown_arrow ==
    /\ engine = "plantuml" /\ pc = "content" /\ i <= Len(pairs.stmts)
    /\ Stmt.rule = "message"
    /\ IsNone(parse_arrow(message_of(Stmt).arrow_str))
    /\ outcome' = "Err"
    /\ error' = Some(<<"U","n","k","n","o","w","n"," ","a","r","r","o","w"," ","t","y","p","e",":"," ">> \o message_of(Stmt).arrow_str)
    /\ events' = <<>>
    /\ pc' = "done"
    /\ UNCHANGED <<engine, content, pairs, i, is_digraph, node_attributes, stack,
                   participant_order, sequence_number, participants, known_ids,
                   result, calls, first>>

\* mutant: an activation takes a sequence number
process_activation_numbered ==
    /\ engine = "plantuml" /\ pc = "content" /\ i <= Len(pairs.stmts)
    /\ Stmt.rule = "activation"
    /\ events' = events \o activation_events(Stmt.inner, <<"t","r","u","e">>)
    /\ sequence_number' = sequence_number + 1
    /\ i' = i + 1
    /\ UNCHANGED <<engine, content, pairs, pc, is_digraph, node_attributes, stack,
                   participant_order, participants, known_ids,
                   outcome, result, error, calls, first>>

process_activation ==
    /\ engine = "plantuml" /\ pc = "content" /\ i <= Len(pairs.stmts)
    /\ Stmt.rule = "activation"
    /\ events' = events \o activation_events(Stmt.inner, <<"t","r","u","e">>)
    /\ i' = i + 1
    /\ UNCHANGED <<engine, content, pairs, pc, is_digraph, node_attributes, stack,
                   participant_order, sequence_number, participants, known_ids,
                   outcome, result, error, calls, first>>

process_deactivation ==
    /\ engine = "plantuml" /\ pc = "content" /\ i <= Len(pairs.stmts)
    /\ Stmt.rule = "deactivation"
    /\ events' = events \o activation_events(Stmt.inner, <<"f","a","l","s","e">>)
    /\ i' = i + 1
    /\ UNCHANGED <<engine, content, pairs, pc, is_digraph, node_attributes, stack,
                   participant_order, sequence_number, participants, known_ids,
                   outcome, result, error, calls, first>>

\* process_diagram_content, lines 85-87: any other rule
process_other ==
    /\ engine = "plantuml" /\ pc = "content" /\ i <= Len(pairs.stmts)
    /\ Stmt.rule \notin {"participant_declaration", "message", "activation", "deactivation"}
    /\ i' = i + 1
    /\ UNCHANGED <<engine, content, pairs, pc, events, is_digraph, node_attributes, stack,
                   participant_order, sequence_number, participants, known_ids,
                   outcome, result, error, calls, first>>

\* mutant: the batch is returned without its closing BatchEnd
uml_return_without_batch_end ==
    /\ engine = "plantuml" /\ pc = "content" /\ i > Len(pairs.stmts)
    /\ result' = events
    /\ outcome' = "Ok"
    /\ pc' = "done"
    /\ UNCHANGED <<engine, content, pairs, i, events, is_digraph, node_attributes, stack,
                   participant_order, sequence_number, participants, known_ids,
                   error, calls, first>>

\* parse, lines 50-53: BatchEnd and Ok(events)
uml_return ==
    /\ engine = "plantuml" /\ pc = "content" /\ i > Len(pairs.stmts)
    /\ events' = Append(events, BatchEnd)
    /\ result' = Append(events, BatchEnd)
    /\ outcome' = "Ok"
    /\ pc' = "done"
    /\ UNCHANGED <<engine, content, pairs, i, is_digraph, node_attributes, stack,
                   participant_order, sequence_number, participants, known_ids,
                   error, calls, first>>

NextUml ==
    \/ uml_begin
    \/ uml_grammar_accepts
    \/ uml_grammar_rejects
    \/ process_participant
    \/ process_message
    \/ process_message_unknown_arrow
    \/ process_activation
    \/ process_deactivation
    \/ process_other
    \/ uml_return

----------------------------------------------------------------------------
(* Inputs.  Every call starts from a text; the locals are set by the entry *)
(* point's first step.                                                     *)

NoPairs == [accepted |-> TRUE, stmts |-> <<>>, diagnostic |-> <<>>]

SeqsUpTo(P, n) == UNION {[1..k -> P] : k \in 0..n}

InitWith(e, c, p) ==
    /\ engine = e /\ content = c /\ pairs = p
    /\ pc = "start" /\ i = 1 /\ events = <<>>
    /\ is_digraph = FALSE /\ node_attributes = EmptyMap /\ stack = <<>>
    /\ participant_order = 0 /\ sequence_number = 0
    /\ participants = EmptyMap /\ known_ids = {}
    /\ outcome = "running" /\ result = <<>> /\ error = None
    /\ calls = 1 /\ first = NoCall

\* lines of DOT text, well-formed and malformed, of both dialects
MaxLines == 3

DotLines == {
    <<"d","i","g","r","a","p","h"," ","G"," ","{">>,
    <<" "," ","r","a","n","k","d","i","r","=","L","R",";">>,
    <<"d","i","g","r","a","p","h"," ","{"," ","r","a","n","k","d","i","r","=","B","T">>,
    <<"r","a","n","k","d","i","r"," ","="," ","\"","R","L","\"">>,
    <<"A"," ","-",">"," ","B",";">>,
    <<"\"","A","\""," ","-",">"," ","\"","B","\""," ","[","l","a","b","e","l","=","\"","x","\"","]",";">>,
    <<"A"," ","-","-"," ","B"," ","[","s","t","y","l","e","=","d","a","s","h","e","d","]">>,
    <<"\"","A","\""," ","[","t","y","p","e","=","\"","t","e","a","m","\"",","," ","l","e","v","e","l","=","\"","2","\"","]",";">>,
    <<"/","/"," ","A"," ","-",">"," ","B">>,
    <<"]"," ","[">>,
    <<"s","u","b","g","r","a","p","h"," ","c","l","u","s","t","e","r","_","0"," ","{">> }

MaxNestedLines == 4

NestedLines == {
    <<"s","u","b","g","r","a","p","h"," ","c","l","u","s","t","e","r","_","0"," ","{">>,
    <<" "," ","l","a","b","e","l","=","\"","T","e","n","a","n","t",":"," ","A","c","m","e","\"",";">>,
    <<"L","a","b","e","l","=","S","i","t","e">>,
    <<"u","1"," ","[","l","a","b","e","l","=","\"","S","u","p","\\","n","B","o","b","\"","]">>,
    <<"}">>,
    <<"s","u","b","g","r","a","p","h"," ","p","l","a","i","n"," ","{">> }

\* statements of a PlantUML diagram, as the grammar's pairs
Child(rule, text) == [rule |-> rule, text |-> text]

Declaration(participant_type, id, alias) ==
    [rule |-> "participant_declaration",
     inner |-> <<Child("participant_type", participant_type), Child("identifier", id)>>
               \o (IF IsSome(alias) THEN <<Child("alias", Unwrap(alias))>> ELSE <<>>)]

Message(from, arrow, to, label) ==
    [rule |-> "message",
     inner |-> <<Child("identifier", from), Child("arrow", arrow), Child("identifier", to)>>
               \o (IF IsSome(label) THEN <<Child("message_label", Unwrap(label))>> ELSE <<>>)]

Activation(id) == [rule |-> "activation", inner |-> <<Child("identifier", id)>>]
Deactivation(id) == [rule |-> "deactivation", inner |-> <<Child("identifier", id)>>]
Note == [rule |-> "note", inner |-> <<>>]

MaxStmts == 3

UmlStmts == {
    Declaration(<<"a","c","t","o","r">>, <<"U","s","e","r">>, None),
    Declaration(<<"p","a","r","t","i","c","i","p","a","n","t">>, <<"\"","W","e","b"," ","S","e","r","v","e","r","\"">>, Some(<<"W","e","b">>)),
    Declaration(<<"d","a","t","a","b","a","s","e">>, <<"D","B">>, None),
    Message(<<"U","s","e","r">>, <<"-",">">>, <<"W","e","b">>, Some(<<" ","H","T","T","P"," ","R","e","q","u","e","s","t"," ">>)),
    Message(<<"U","s","e","r">>, <<"-",">">>, <<"D","B">>, Some(<<" ","Q","u","e","r","y">>)),
    Message(<<"W","e","b">>, <<"<","-","-">>, <<"D","B">>, None),
    Message(<<"D","B">>, <<"-",">",">">>, <<"D","B">>, Some(<<" "," ">>)),
    Message(<<"U","s","e","r">>, <<"~",">">>, <<"D","B">>, Some(<<"x">>)),
    Activation(<<"W","e","b">>),
    Deactivation(<<"D","B">>),
    Note }

Accepted(stmts) == [accepted |-> TRUE, stmts |-> stmts, diagnostic |-> <<>>]
Rejected == [accepted |-> FALSE, stmts |-> <<>>, diagnostic |-> <<"e","x","p","e","c","t","e","d"," ","@","s","t","a","r","t","u","m","l">>]

InitDot == \E c \in SeqsUpTo(DotLines, MaxLines) : InitWith("dot", c, NoPairs)

InitNested == \E c \in SeqsUpTo(NestedLines, MaxNestedLines) : InitWith("dot", c, NoPairs)

InitUml ==
    \E p \in {Accepted(s) : s \in SeqsUpTo(UmlStmts, MaxStmts)} \cup {Rejected} :
        InitWith("plantuml", <<>>, p)

Init == InitDot \/ InitNested \/ InitUml

Next == NextDot \/ NextUml

Spec == Init /\ [][Next]_vars

----------------------------------------------------------------------------
(* Digraphs made only of attribute-free edge statements `X -> Y;`          *)

MaxEdges == 2

Ids == {<<"A">>, <<"B">>, <<"n","1">>}

\* one statement per line, indented and spaced or written tight
EdgeStmt(e) ==
    IF e.tight THEN e.from \o <<"-",">">> \o e.to \o <<";">>
    ELSE <<" "," "," "," ">> \o e.from \o <<" ","-",">"," ">> \o e.to \o <<";">>

EdgeChoices == [from : Ids, to : Ids, tight : BOOLEAN]

EdgeGraph(es) == <<<<"d","i","g","r","a","p","h"," ","{">>>> \o [k \in 1..Len(es) |-> EdgeStmt(es[k])] \o <<<<"}">>>>

InitEdges == \E es \in SeqsUpTo(EdgeChoices, MaxEdges) : InitWith("dot", EdgeGraph(es), NoPairs)

\* the steps of dialect (i) on well-formed text
NextRegular ==
    \/ dot_begin
    \/ dot_layout
    \/ parse_nodes_line
    \/ parse_nodes_end
    \/ parse_edges_line
    \/ parse_edges_end
    \/ dot_return

SpecEdges == InitEdges /\ [][NextRegular]_vars

----------------------------------------------------------------------------
(* Digraphs with one node definition `id [k1=v1, k2=v2, ...];`             *)

MaxAttrs == 3

Attr(key, value, quoted) == [key |-> key, value |-> value, quoted |-> quoted]

\* attribute values as DOT writes them: bare words and quoted strings, a
\* quoted string being free to hold blanks, commas and equals signs
AttrChoices == {
    Attr(<<"t","y","p","e">>, <<"t","e","a","m">>, TRUE),
    Attr(<<"t","y","p","e">>, <<"u","s","e","r">>, FALSE),
    Attr(<<"l","e","v","e","l">>, <<"2">>, TRUE),
    Attr(<<"l","e","v","e","l">>, <<"h","i","g","h">>, FALSE),
    Attr(<<"l","a","b","e","l">>, <<"T","e","a","m"," ","A","l","p","h","a">>, TRUE),
    Attr(<<"l","a","b","e","l">>, <<"S","m","i","t","h",","," ","J","o","h","n">>, TRUE),
    Attr(<<"c","o","l","o","r">>, <<"r","e","d">>, FALSE),
    Attr(<<"u","r","l">>, <<"p","=","q">>, TRUE) }

AttrLists ==
    {al \in SeqsUpTo(AttrChoices, MaxAttrs) :
        \A j, k \in 1..Len(al) : j # k => al[j].key # al[k].key}

Quoted(s) == <<"\"">> \o s \o <<"\"">>

AttrText(a) == a.key \o <<"=">> \o (IF a.quoted THEN Quoted(a.value) ELSE a.value)

RECURSIVE AttrListText(_)
AttrListText(al) ==
    IF al = <<>> THEN <<>>
    ELSE IF Len(al) = 1 THEN AttrText(al[1])
    ELSE AttrText(al[1]) \o <<","," ">> \o AttrListText(Tail(al))

NodeDefs == [id : {<<"N","o","d","e","1">>}, quoted : BOOLEAN, attrs : AttrLists]

NodeDefLine(d) ==
    <<" "," "," "," ">> \o (IF d.quoted THEN Quoted(d.id) ELSE d.id)
            \o <<" ","[">> \o AttrListText(d.attrs) \o <<"]",";">>

NodeDefGraph(d) == <<<<"d","i","g","r","a","p","h"," ","{">>, NodeDefLine(d), <<"}">>>>

InitNodeDef == \E d \in NodeDefs : InitWith("dot", NodeDefGraph(d), NoPairs)

SpecNodeDef == InitNodeDef /\ [][NextRegular]_vars

----------------------------------------------------------------------------
(* Nested-subgraph texts: three nested clusters, each with one label line, *)
(* and one leaf node in the innermost; the statements of a cluster come in *)
(* any order.                                                              *)

MaxAttrLines == 1

ClusterHeader(level) == <<"s","u","b","g","r","a","p","h"," ","c","l","u","s","t","e","r","_">> \o to_string(level) \o <<" ","{">>

ClusterLabelLine(level) ==
    CASE level = 0 -> <<" "," "," "," ","l","a","b","e","l","=","\"","T","e","n","a","n","t",":"," ","A","c","m","e","\"">>
      [] level = 1 -> <<" "," "," "," ","L","a","b","e","l","=","O","r","g",";">>
      [] OTHER -> <<" "," "," "," ","l","a","b","e","l","=","\"","S","i","t","e",":"," ","P","a","r","i","s","\"",";">>

LeafLine == <<" "," "," "," ","u","s","e","r","1"," ","[","l","a","b","e","l","=","\"","A","l","i","c","e","\"","]",";">>

\* the orders of a cluster's statements: one label line, one child (the
\* nested block or the leaf line) and up to MaxAttrLines other attribute lines
BodyOrders ==
    {o \in UNION {[1..(n + 2) -> {"label", "attr", "child"}] : n \in 0..MaxAttrLines} :
        /\ Cardinality({k \in DOMAIN o : o[k] = "label"}) = 1
        /\ Cardinality({k \in DOMAIN o : o[k] = "child"}) = 1}

RECURSIVE ClusterBlock(_, _)
RECURSIVE ClusterBody(_, _, _)
ClusterBody(level, orders, k) ==
    IF k > Len(orders[level + 1]) THEN <<>>
    ELSE (CASE orders[level + 1][k] = "label" -> <<ClusterLabelLine(level)>>
            [] orders[level + 1][k] = "attr" -> <<<<" "," "," "," ","s","t","y","l","e","=","f","i","l","l","e","d",";">>>>
            [] OTHER -> IF level < 2 THEN ClusterBlock(level + 1, orders) ELSE <<LeafLine>>)
         \o ClusterBody(level, orders, k + 1)
ClusterBlock(level, orders) ==
    <<ClusterHeader(level)>> \o ClusterBody(level, orders, 1) \o <<<<"}">>>>

ChainGraph(orders) == <<<<"d","i","g","r","a","p","h"," ","G"," ","{">>>> \o ClusterBlock(0, orders) \o <<<<"}">>>>

InitChain ==
    \E orders \in [1..3 -> BodyOrders] : InitWith("dot", ChainGraph(orders), NoPairs)

\* the steps of the nested-subgraph dialect
NextNested ==
    \/ dot_begin
    \/ nested_line
    \/ nested_end
    \/ dot_return

SpecChain == InitChain /\ [][NextNested]_vars

----------------------------------------------------------------------------
(* Sequence diagrams that open with one participant declaration, of any    *)
(* keyword, bare or quoted, with or without an alias; the statements after *)
(* it name the participant by alias and by id, and declare the alias anew. *)

Keywords == {<<"a","c","t","o","r">>, <<"d","a","t","a","b","a","s","e">>, <<"e","n","t","i","t","y">>, <<"b","o","u","n","d","a","r","y">>, <<"c","o","n","t","r","o","l">>,
             <<"p","a","r","t","i","c","i","p","a","n","t">>, <<"c","o","l","l","e","c","t","i","o","n","s">>}

DeclaredIds == {<<"A">>, <<"\"","W","e","b"," ","S","e","r","v","e","r","\"">>}

Aliases == {None, Some(<<"W">>), Some(<<"\"","W","e","n","d","y"," ","W","\"">>)}

FollowUps == {
    Declaration(<<"p","a","r","t","i","c","i","p","a","n","t">>, <<"B">>, Some(<<"W">>)),
    Declaration(<<"d","a","t","a","b","a","s","e">>, <<"W">>, None),
    Message(<<"W">>, <<"-",">">>, <<"A">>, None),
    Message(<<"A">>, <<"<","-">>, <<"W">>, Some(<<" ","a","s","k"," ">>)),
    Message(<<"\"","W","e","n","d","y"," ","W","\"">>, <<"-",">",">">>, <<"B">>, None) }

InitParticipants ==
    \E t \in Keywords, id \in DeclaredIds, alias \in Aliases,
       rest \in SeqsUpTo(FollowUps, MaxStmts - 1) :
        InitWith("plantuml", <<>>, Accepted(<<Declaration(t, id, alias)>> \o rest))

\* the steps of a diagram of declarations and messages with known arrows
NextParticipants ==
    \/ uml_begin
    \/ uml_grammar_accepts
    \/ process_participant
    \/ process_message
    \/ uml_return

SpecParticipants == InitParticipants /\ [][NextParticipants]_vars

----------------------------------------------------------------------------
(* Sequence diagrams of messages between A and B under every arrow shape,  *)
(* each of the two declared beforehand or not.                             *)

MaxMessages == 2

ArrowShapes == {<<"-",">">>, <<"-",">",">">>, <<"-","-",">">>, <<"-","-",">",">">>, <<"<","-">>, <<"<","<","-">>, <<"<","-","-">>, <<"<","<","-","-">>,
                <<"<","-",">">>, <<"<","-","-",">">>, <<"-","\\">>, <<"\\","-">>, <<"\\","\\">>}

ArrowMessages ==
    {Message(<<"B">>, a, <<"A">>, None) : a \in ArrowShapes}
        \cup {Message(<<"A">>, <<"-",">">>, <<"B">>, Some(<<" ","m","s","g">>))}

ArrowDeclarations ==
    {<<>>,
     <<Declaration(<<"p","a","r","t","i","c","i","p","a","n","t">>, <<"A">>, None)>>,
     <<Declaration(<<"a","c","t","o","r">>, <<"B">>, None)>>,
     <<Declaration(<<"p","a","r","t","i","c","i","p","a","n","t">>, <<"A">>, None), Declaration(<<"a","c","t","o","r">>, <<"B">>, None)>>}

InitArrows ==
    \E d \in ArrowDeclarations, ms \in SeqsUpTo(ArrowMessages, MaxMessages) :
        InitWith("plantuml", <<>>, Accepted(d \o ms))

SpecArrows == InitArrows /\ [][NextParticipants]_vars

----------------------------------------------------------------------------
(* Graphs of one edge from A to B in every written form: endpoints bare or *)
(* quoted, with or without `;`, with or without an attribute list on the   *)
(* target; directed or undirected; A and B defined beforehand or not.      *)

EdgeForms == [from_quoted : BOOLEAN, to_quoted : BOOLEAN, attrs : BOOLEAN,
              semicolon : BOOLEAN, directed : BOOLEAN, defined : BOOLEAN]

EdgeFormLine(f) ==
    <<" "," "," "," ">> \o (IF f.from_quoted THEN <<"\"","A","\"">> ELSE <<"A">>)
        \o (IF f.directed THEN <<" ","-",">"," ">> ELSE <<" ","-","-"," ">>)
        \o (IF f.to_quoted THEN <<"\"","B","\"">> ELSE <<"B">>)
        \o (IF f.attrs THEN <<" ","[","s","t","y","l","e","=","d","a","s","h","e","d","]">> ELSE <<>>)
        \o (IF f.semicolon THEN <<";">> ELSE <<>>)

EdgeFormGraph(f) ==
    <<IF f.directed THEN <<"d","i","g","r","a","p","h"," ","G"," ","{">> ELSE <<"g","r","a","p","h"," ","G"," ","{">>>>
        \o (IF f.defined THEN <<<<" "," "," "," ","\"","A","\""," ","[","t","y","p","e","=","\"","t","e","a","m","\"","]",";">>, <<" "," "," "," ","\"","B","\""," ","[","t","y","p","e","=","\"","u","s","e","r","\"","]",";">>>>
            ELSE <<>>)
        \o <<EdgeFormLine(f), <<"}">>>>

InitEdgeForms == \E f \in EdgeForms : InitWith("dot", EdgeFormGraph(f), NoPairs)

SpecEdgeForms == InitEdgeForms /\ [][NextRegular]_vars

----------------------------------------------------------------------------
(* Digraphs with one rankdir directive on a line of its own: every value,  *)
(* bare or quoted, with or without `;`, with or without blanks around `=`, *)
(* before or after the edge line.                                          *)

RankdirValues == {<<"B","T">>, <<"L","R">>, <<"R","L">>, <<"T","B">>, <<"l","r">>, <<"B","t">>, <<"X","Y">>, <<>>}

RankdirForms == [value : RankdirValues, quoted : BOOLEAN, semicolon : BOOLEAN,
                 spaced : BOOLEAN, first : BOOLEAN]

RankdirLine(f) ==
    <<" "," "," "," ","r","a","n","k","d","i","r">> \o (IF f.spaced THEN <<" ","="," ">> ELSE <<"=">>)
        \o (IF f.quoted THEN <<"\"">> \o f.value \o <<"\"">> ELSE f.value)
        \o (IF f.semicolon THEN <<";">> ELSE <<>>)

RankdirGraph(f) ==
    <<<<"d","i","g","r","a","p","h"," ","G"," ","{">>>>
        \o (IF f.first THEN <<RankdirLine(f), <<" "," "," "," ","A"," ","-",">"," ","B",";">>>>
            ELSE <<<<" "," "," "," ","A"," ","-",">"," ","B",";">>, RankdirLine(f)>>)
        \o <<<<"}">>>>

InitRankdir == \E f \in RankdirForms : InitWith("dot", RankdirGraph(f), NoPairs)

SpecRankdir == InitRankdir /\ [][NextRegular]_vars

----------------------------------------------------------------------------
(* One cluster with one label line in every written form: `label` or       *)
(* `Label`, the value bare or quoted, with or without `;`, with no, one or *)
(* two colons.                                                             *)

LabelValues == {<<"A","c","m","e">>, <<"T","e","n","a","n","t",":"," ","A","c","m","e">>, <<"a",":"," ","b",":"," ","c">>, <<"S","i","t","e",":","P","a","r","i","s">>}

LabelForms == [value : LabelValues, capital : BOOLEAN, quoted : BOOLEAN,
               semicolon : BOOLEAN]

LabelLine(f) ==
    <<" "," "," "," ">> \o (IF f.capital THEN <<"L","a","b","e","l","=">> ELSE <<"l","a","b","e","l","=">>)
        \o (IF f.quoted THEN <<"\"">> \o f.value \o <<"\"">> ELSE f.value)
        \o (IF f.semicolon THEN <<";">> ELSE <<>>)

LabelGraph(f) == <<<<"d","i","g","r","a","p","h"," ","G"," ","{">>, <<" "," ","s","u","b","g","r","a","p","h"," ","c","l","u","s","t","e","r","_","0"," ","{">>, LabelLine(f), <<" "," ","}">>, <<"}">>>>

InitLabels == \E f \in LabelForms : InitWith("dot", LabelGraph(f), NoPairs)

SpecLabels == InitLabels /\ [][NextNested]_vars

----------------------------------------------------------------------------
(* Nested clusters with label lines of every class, in any arrangement:    *)
(* labels that match two classes, in upper and lower case, with a key in   *)
(* front of a colon, in clusters with and without a labelled parent.       *)

MaxClusterLines == 3

ClusterLines == {
    <<" "," ","s","u","b","g","r","a","p","h"," ","c","l","u","s","t","e","r","_","b"," ","{">>,
    <<" "," ","}">>,
    <<" "," "," "," ","l","a","b","e","l","=","\"","T","E","N","A","N","T"," ","S","i","t","e","\"",";">>,
    <<" "," "," "," ","L","a","b","e","l","=","C","o","n","t","a","c","t"," ","C","e","n","t","e","r"," ","S","i","t","e">>,
    <<" "," "," "," ","l","a","b","e","l","=","\"","S","i","t","e",":"," ","P","a","r","i","s","\"">>,
    <<" "," "," "," ","l","a","b","e","l","=","P","a","r","i","s"," ","S","i","t","e",";">>,
    <<" "," "," "," ","l","a","b","e","l","=","\"","B","i","g"," ","O","r","g","a","n","i","z","a","t","i","o","n","\"">> }

InitClusters ==
    \E rest \in SeqsUpTo(ClusterLines, MaxClusterLines) :
        InitWith("dot", <<<<"s","u","b","g","r","a","p","h"," ","c","l","u","s","t","e","r","_","a"," ","{">>>> \o rest, NoPairs)

SpecClusters == InitClusters /\ [][NextNested]_vars

----------------------------------------------------------------------------
(* Leaf lines in every written form, outside any cluster, in a cluster     *)
(* without a label, in a labelled cluster, and in an unlabelled cluster    *)
(* nested in a labelled one.                                               *)

MaxLeaves == 2

LeafLines == {
    <<" "," "," "," ","u","1"," ","[","l","a","b","e","l","=","\"","A","l","i","c","e","\"","]",";">>,
    <<" "," "," "," ","\"","u"," ","2","\""," ","[","l","a","b","e","l","=","\"","S","u","p","\\","n","B","o","b","\"",","," ","s","h","a","p","e","=","b","o","x","]">>,
    <<" "," "," "," ","u","3"," ","[","l","a","b","e","l","=","C","a","r","o","l","]">>,
    <<" "," "," "," ","u","4"," ","[","l","a","b","e","l","=","D","a","v","e",","," ","s","h","a","p","e","=","\"","b","o","x","\"","]",";">>,
    <<" "," "," "," ","u","5"," ","[","s","h","a","p","e","=","b","o","x",","," ","l","a","b","e","l","=","\""," ","S","U","P","E","R","V","I","S","O","R"," ","E","v","e"," ","\"","]">> }

LeafContexts == {
    <<<<"s","u","b","g","r","a","p","h"," ","p","l","a","i","n"," ","{">>>>,
    <<<<"s","u","b","g","r","a","p","h"," ","c","l","u","s","t","e","r","_","a"," ","{">>>>,
    <<<<"s","u","b","g","r","a","p","h"," ","c","l","u","s","t","e","r","_","a"," ","{">>, <<" "," ","l","a","b","e","l","=","\"","S","i","t","e",":"," ","P","a","r","i","s","\"">>>>,
    <<<<"s","u","b","g","r","a","p","h"," ","c","l","u","s","t","e","r","_","a"," ","{">>, <<" "," ","l","a","b","e","l","=","\"","S","i","t","e",":"," ","P","a","r","i","s","\"">>, <<" "," ","s","u","b","g","r","a","p","h"," ","c","l","u","s","t","e","r","_","b"," ","{">>>> }

InitLeaves ==
    \E context \in LeafContexts, leaves \in SeqsUpTo(LeafLines, MaxLeaves) :
        InitWith("dot", context \o leaves \o <<<<"}">>>>, NoPairs)

SpecLeaves == InitLeaves /\ [][NextNested]_vars

----------------------------------------------------------------------------
(* Messages from A to B under every arrow token, the known shapes and      *)
(* tokens that are none of them.                                           *)

OtherTokens == {<<"~",">">>, <<"-","-">>, <<"<","<","-",">",">">>, <<"-",">",">",">">>, <<"<">>, <<"=",">">>, <<"-">>, <<"\\">>}

TokenMessages == {Message(<<"A">>, a, <<"B">>, None) : a \in ArrowShapes \cup OtherTokens}

InitTokens ==
    \E ms \in SeqsUpTo(TokenMessages, MaxMessages) :
        InitWith("plantuml", <<>>, Accepted(ms))

\* the steps of a diagram of messages
NextMessages ==
    \/ uml_begin
    \/ uml_grammar_accepts
    \/ process_message
    \/ process_message_unknown_arrow
    \/ uml_return

SpecTokens == InitTokens /\ [][NextMessages]_vars

----------------------------------------------------------------------------
(* Repeated calls: a caller parses one text after another                  *)
(* (examples/events_demo.rs calls both entry points in turn).              *)

MaxCalls == 3

CallInput(e, c, p) == [engine |-> e, content |-> c, pairs |-> p]

TwiceInputs == {
    CallInput("dot", <<<<"d","i","g","r","a","p","h"," ","G"," ","{">>, <<"A"," ","-",">"," ","B",";">>, <<"\"","A","\""," ","[","l","e","v","e","l","=","\"","2","\"","]",";">>>>, NoPairs),
    CallInput("dot", <<<<"s","u","b","g","r","a","p","h"," ","c","l","u","s","t","e","r","_","0"," ","{">>, <<"l","a","b","e","l","=","\"","T","e","n","a","n","t",":"," ","A","c","m","e","\"",";">>,
                       <<"u","1"," ","[","l","a","b","e","l","=","\"","S","u","p","\\","n","B","o","b","\"","]">>>>, NoPairs),
    CallInput("dot", <<<<"]"," ","[">>>>, NoPairs),
    CallInput("plantuml", <<>>,
              Accepted(<<Declaration(<<"p","a","r","t","i","c","i","p","a","n","t">>, <<"\"","W","e","b"," ","S","e","r","v","e","r","\"">>, Some(<<"W","e","b">>)),
                         Message(<<"U","s","e","r">>, <<"-",">">>, <<"W","e","b">>, Some(<<" ","H","T","T","P"," ","R","e","q","u","e","s","t"," ">>)),
    Message(<<"U","s","e","r">>, <<"-",">">>, <<"D","B">>, Some(<<" ","Q","u","e","r","y">>)),
                         Activation(<<"W","e","b">>), Deactivation(<<"W","e","b">>), Note>>)),
    CallInput("plantuml", <<>>,
              Accepted(<<Message(<<"D","B">>, <<"-",">",">">>, <<"D","B">>, None),
                         Message(<<"U","s","e","r">>, <<"~",">">>, <<"D","B">>, None)>>)),
    CallInput("plantuml", <<>>, Rejected) }

InitTwice == \E x \in TwiceInputs : InitWith(x.engine, x.content, x.pairs)

\* the caller calls an entry point again; the finished call's locals are gone
\* and the new call's are set by its first step
next_call ==
    /\ pc = "done" /\ outcome # "panic" /\ calls < MaxCalls
    /\ \E x \in TwiceInputs :
          /\ engine' = x.engine
          /\ content' = x.content
          /\ pairs' = x.pairs
    /\ pc' = "start"
    /\ outcome' = "running"
    /\ result' = <<>>
    /\ error' = None
    /\ calls' = calls + 1
    /\ first' = IF calls = 1
                THEN [engine |-> engine, content |-> content, pairs |-> pairs,
                      outcome |-> outcome, result |-> result, error |-> error]
                ELSE first
    /\ UNCHANGED <<i, events, is_digraph, node_attributes, stack, participant_order,
                   sequence_number, participants, known_ids>>

NextTwice == NextDot \/ NextUml \/ next_call

SpecTwice == InitTwice /\ [][NextTwice]_vars

----------------------------------------------------------------------------
(* Properties *)

EventsOfType(evs, t) == {k \in 1..Len(evs) : evs[k].type = t}

Returned == outcome \in {"returned", "Ok"}

\* C1: every event sequence returned by parse_dot_to_events, and every Ok
\* sequence of the PlantUML parse, starts with BatchStart, ends with BatchEnd
\* and holds no other BatchStart or BatchEnd in between.
C1_BatchDelimited ==
    Returned =>
        /\ Len(result) >= 2
        /\ result[1] = BatchStart
        /\ result[Len(result)] = BatchEnd
        /\ \A k \in 2..(Len(result) - 1) : result[k].type \notin {"BatchStart", "BatchEnd"}

C1_Witness ==
    /\ engine = "plantuml" /\ outcome = "Ok"
    /\ EventsOfType(result, "AddNode") # {}
    /\ EventsOfType(result, "AddEdge") # {}

\* C2: parse_dot_to_events never fails: whatever the text, the call neither
\* aborts nor reports an error, it returns an event sequence.
C2_NeverFails ==
    engine = "dot" => /\ outcome # "panic"
                      /\ (pc = "done" => outcome = "returned")

KnownArrows == {<<"-",">">>, <<"-",">",">">>, <<"-","-",">">>, <<"-","-",">",">">>, <<"<","-">>, <<"<","<","-">>, <<"<","-","-">>, <<"<","<","-","-">>,
                <<"<","-",">">>, <<"<","-","-",">">>, <<"-","\\">>, <<"\\","-">>, <<"\\","\\">>}

ArrowToken(stmt) == (CHOOSE c \in {stmt.inner[k] : k \in 1..Len(stmt.inner)} : c.rule = "arrow").text

UnknownArrowAt(stmts) ==
    {k \in 1..Len(stmts) : stmts[k].rule = "message" /\ ArrowToken(stmts[k]) \notin KnownArrows}

\* C3: when the PlantUML parse fails (the grammar rejects the input, or a
\* message's arrow is none of the 13 shapes) the result is Err with a
\* descriptive string, naming the token in the arrow case, and no event is
\* returned, not even those accumulated before the failing message.
C3_FailureIsTerminal ==
    (engine = "plantuml" /\ pc = "done") =>
        /\ (~pairs.accepted \/ UnknownArrowAt(pairs.stmts) # {}) =>
              /\ outcome = "Err"
              /\ result = <<>>
              /\ IsSome(error)
              /\ ~pairs.accepted => starts_with(Unwrap(error), <<"P","a","r","s","e"," ","e","r","r","o","r",":"," ">>)
              /\ pairs.accepted =>
                    Unwrap(error) = <<"U","n","k","n","o","w","n"," ","a","r","r","o","w"," ","t","y","p","e",":"," ">>
                        \o ArrowToken(pairs.stmts[Min(UnknownArrowAt(pairs.stmts))])
        /\ outcome = "Err" => result = <<>>

C3_Witness ==
    /\ engine = "plantuml" /\ outcome = "Err"
    /\ i >= 2 /\ known_ids # {} /\ sequence_number >= 1

DeclaredBefore(evs, k, id) ==
    \E j \in 1..(k - 1) : evs[j].type = "AddNode" /\ evs[j].id = id

\* C4: in every event stream of either engine, both endpoints of each AddEdge
\* are ids of AddNode events that occur earlier in the same stream.
C4_EdgeEndpointsDeclared ==
    /\ \A k \in EventsOfType(events, "AddEdge") :
          DeclaredBefore(events, k, events[k].from) /\ DeclaredBefore(events, k, events[k].to)
    /\ \A k \in EventsOfType(result, "AddEdge") :
          DeclaredBefore(result, k, result[k].from) /\ DeclaredBefore(result, k, result[k].to)

\* an edge whose target was auto-declared right before it and whose source
\* was known from an earlier line
C4_Witness ==
    /\ Returned
    /\ \E k \in EventsOfType(result, "AddEdge") :
          /\ k > 3
          /\ result[k - 1].type = "AddNode" /\ result[k - 1].id = result[k].to
          /\ result[k - 2].type # "AddNode"

\* C5: a call's result depends on its text alone: the same text parsed again,
\* with other calls in between, gives the same outcome and the same events.
C5_Deterministic ==
    (pc = "done" /\ calls > 1 /\ engine = first.engine /\ content = first.content
        /\ pairs = first.pairs) =>
        /\ outcome = first.outcome
        /\ result = first.result
        /\ error = first.error

C5_Witness ==
    /\ pc = "done" /\ calls = 3 /\ engine = "plantuml" /\ outcome = "Ok"
    /\ pairs = first.pairs
    /\ EventsOfType(result, "AddEdge") # {}

\* the events of one type, in order
SelectType(evs, t) == SelectSeq(evs, LAMBDA e : e.type = t)

IdChars == {Upper[k] : k \in 1..26} \cup {Lower[k] : k \in 1..26}
           \cup {Digits[k] : k \in 1..10} \cup {"_"}

\* the bare identifiers of a line: its maximal runs of identifier characters
RECURSIVE Identifiers(_)
Identifiers(s) ==
    IF s = <<>> THEN <<>>
    ELSE IF s[1] \notin IdChars THEN Identifiers(Tail(s))
    ELSE LET stop == {k \in 1..Len(s) : s[k] \notin IdChars}
             n == IF stop = {} THEN Len(s) ELSE Min(stop) - 1
         IN  <<SubSeq(s, 1, n)>> \o Identifiers(SubSeq(s, n + 1, Len(s)))

\* the endpoints named by the edge statements (lines 2 .. Len - 1), in text order
RECURSIVE EndpointsOf(_, _)
EndpointsOf(c, k) ==
    IF k >= Len(c) THEN <<>> ELSE Identifiers(c[k]) \o EndpointsOf(c, k + 1)

RECURSIVE FirstSeen(_)
FirstSeen(s) ==
    IF s = <<>> THEN <<>>
    ELSE LET r == FirstSeen(SubSeq(s, 1, Len(s) - 1))
         IN  IF \E k \in 1..Len(r) : r[k] = s[Len(s)] THEN r ELSE Append(r, s[Len(s)])

\* C6: a digraph of attribute-free edge statements `X -> Y;` yields one
\* AddEdge per statement and one AddNode per distinct endpoint, the AddNodes in
\* first-seen order, each with label = id and node_type Node.
C6_EdgesOnly ==
    outcome = "returned" =>
        LET nodes == SelectType(result, "AddNode")
            edges == SelectType(result, "AddEdge")
            named == EndpointsOf(content, 2)
        IN  /\ Len(edges) = Len(content) - 2
            /\ \A k \in 1..Len(edges) :
                  /\ edges[k].from = named[2 * k - 1]
                  /\ edges[k].to = named[2 * k]
            /\ [k \in 1..Len(nodes) |-> nodes[k].id] = FirstSeen(named)
            /\ \A k \in 1..Len(nodes) :
                  /\ nodes[k].label = Some(nodes[k].id)
                  /\ nodes[k].node_type = NodeTypeNode

\* two statements that share an endpoint: three nodes, two edges
C6_Witness ==
    /\ outcome = "returned"
    /\ Len(content) = 4
    /\ Len(SelectType(result, "AddNode")) = 3
    /\ Len(SelectType(result, "AddEdge")) = 2
    /\ SelectType(result, "AddEdge")[1].to = SelectType(result, "AddEdge")[2].from

\* the value given to a key by an attribute list
HasKey(al, key) == \E k \in 1..Len(al) : al[k].key = key
ValueOf(al, key) == al[CHOOSE k \in 1..Len(al) : al[k].key = key].value

IsUnsignedInteger(v) == v # <<>> /\ \A k \in 1..Len(v) : IsDigit(v[k])

\* the AddNode that the node definition d stands for
ClaimedNode(d) ==
    AddNode(d.id,
            IF HasKey(d.attrs, <<"l","a","b","e","l">>) THEN Some(ValueOf(d.attrs, <<"l","a","b","e","l">>)) ELSE Some(d.id),
            IF HasKey(d.attrs, <<"t","y","p","e">>) THEN NodeTypeCustom(ValueOf(d.attrs, <<"t","y","p","e">>))
                                        ELSE NodeTypeNode,
            [style |-> None,
             position |-> IF HasKey(d.attrs, <<"l","e","v","e","l">>)
                             /\ IsUnsignedInteger(ValueOf(d.attrs, <<"l","e","v","e","l">>))
                          THEN Some(Layer(DecimalValue(ValueOf(d.attrs, <<"l","e","v","e","l">>))))
                          ELSE None,
             custom |-> [key \in {d.attrs[k].key : k \in 1..Len(d.attrs)}
                                    \ {<<"t","y","p","e">>, <<"l","e","v","e","l">>, <<"l","a","b","e","l">>}
                            |-> ValueOf(d.attrs, key)]])

\* C7: a node definition `id [k1=v1, k2=v2, ...]` yields the AddNode with the
\* unquoted id, label = the unquoted value of label (else the id), Custom(type)
\* (else Node), Layer{level} exactly when level is an unsigned integer, and
\* every other pair, and only those, in properties.custom.
C7_NodeAttributes ==
    outcome = "returned" =>
        \A d \in NodeDefs :
            content = NodeDefGraph(d) => SelectType(result, "AddNode") = <<ClaimedNode(d)>>

\* dialect (i) is the one taken unless the text is in nested-subgraph format
RegularDialect == engine = "dot" /\ ~is_nested_format(content)

\* the lines that open with a rankdir directive
RankdirLines(c) == {k \in 1..Len(c) : starts_with(trim(c[k]), <<"r","a","n","k","d","i","r">>) /\ contains(c[k], <<"=">>)}

\* the lines, comments aside, in which a rankdir directive occurs anywhere
RankdirAnywhere(c) ==
    {k \in 1..Len(c) : ~starts_with(trim(c[k]), <<"/","/">>) /\ contains(c[k], <<"r","a","n","k","d","i","r","=">>)}
    \cup RankdirLines(c)

ExactlyOneLayoutFirst(evs) ==
    /\ EventsOfType(evs, "SetLayout") = {2}
    /\ evs[2].layout_type.kind = "Hierarchical"
    /\ \A k \in EventsOfType(evs, "AddNode") \cup EventsOfType(evs, "AddEdge") : k > 2

LineIndex(c, line) == Min({k \in 1..Len(c) : c[k] = line})

\* in the cluster of this level the label line comes before the child
LabelFirst(c, level) ==
    LineIndex(c, ClusterLabelLine(level))
        < LineIndex(c, IF level < 2 THEN ClusterHeader(level + 1) ELSE LeafLine)

IsChain(evs) ==
    LET nodes == SelectType(evs, "AddNode")
        edges == SelectType(evs, "AddEdge")
    IN  /\ Len(nodes) = 4
        /\ Len(edges) = 3
        /\ \A k \in 1..3 : edges[k].from = nodes[k].id /\ edges[k].to = nodes[k + 1].id
        /\ \A j, k \in 1..4 : j # k => nodes[j].id # nodes[k].id

\* C9 (as stated): three nested clusters with one label line each and a leaf
\* in the innermost yield 4 AddNode and 3 AddEdge forming one chain
\* level0 -> level1 -> level2 -> leaf, for every order of the statements
\* inside each cluster.
C9_ChainAnyOrder == outcome = "returned" => IsChain(result)

\* C9 (amended): such a text always yields 4 AddNode; it yields the 3 AddEdge
\* of the chain for every order of the statements in which each cluster's
\* label line comes before its nested block (in the innermost: before the
\* leaf line), and one AddEdge less for each cluster whose label comes after.
C9_ChainWhenLabelsFirst ==
    outcome = "returned" =>
        /\ Len(SelectType(result, "AddNode")) = 4
        /\ Len(SelectType(result, "AddEdge"))
              = Cardinality({level \in 0..2 : LabelFirst(content, level)})
        /\ (\A level \in 0..2 : LabelFirst(content, level)) => IsChain(result)

\* labels first, each preceded by another attribute line
C9_Witness ==
    /\ outcome = "returned"
    /\ \A level \in 0..2 : LabelFirst(content, level)
    /\ \A level \in 0..2 :
          \E k \in 1..Len(content) :
              /\ k < LineIndex(content, ClusterLabelLine(level))
              /\ k > LineIndex(content, ClusterHeader(level))
              /\ content[k] = <<" "," "," "," ","s","t","y","l","e","=","f","i","l","l","e","d",";">>
    /\ IsChain(result)

\* the plain text of an identifier token: a quoted token without its quotes
TokenText(token) ==
    IF Head(token) = "\"" THEN SubSeq(token, 2, Len(token) - 1) ELSE token

IsDeclaration(stmt) == stmt.rule = "participant_declaration"
Keyword(stmt) == stmt.inner[1].text
IdToken(stmt) == stmt.inner[2].text
HasAlias(stmt) == Len(stmt.inner) = 3
AliasToken(stmt) == stmt.inner[3].text

\* the id a name stands for after the first n statements: the id of the
\* latest declaration that gave the name as its alias, else the name itself
CanonicalId(stmts, n, name) ==
    LET declaring == {j \in 1..n : /\ IsDeclaration(stmts[j])
                                   /\ HasAlias(stmts[j])
                                   /\ TokenText(AliasToken(stmts[j])) = name}
    IN  IF declaring = {} THEN name ELSE TokenText(IdToken(stmts[Max(declaring)]))

KeywordNodeType(keyword) ==
    CASE keyword = <<"a","c","t","o","r">> -> [kind |-> "Actor", name |-> <<"h","u","m","a","n">>]
      [] keyword = <<"d","a","t","a","b","a","s","e">> -> [kind |-> "DataStore", name |-> <<>>]
      [] keyword = <<"e","n","t","i","t","y">> -> [kind |-> "External", name |-> <<>>]
      [] keyword = <<"b","o","u","n","d","a","r","y">> -> [kind |-> "Process", name |-> <<>>]
      [] keyword = <<"c","o","n","t","r","o","l">> -> [kind |-> "Process", name |-> <<>>]
      [] OTHER -> [kind |-> "Actor", name |-> keyword]

DeclarationStep ==
    /\ pc = "content" /\ i <= Len(pairs.stmts) /\ i' = i + 1
    /\ IsDeclaration(pairs.stmts[i])

MessageStep ==
    /\ pc = "content" /\ i <= Len(pairs.stmts) /\ i' = i + 1
    /\ pairs.stmts[i].rule = "message"

\* C10: a participant declaration emits exactly one AddNode: its id is the
\* text of the identifier token, never the alias; its label is the alias if
\* there is one and the id otherwise; its node_type follows the keyword
\* (actor: Actor human, database: DataStore, entity: External, boundary and
\* control: Process, any other keyword: Actor of that keyword). A message
\* that names an alias yields an edge whose endpoint is the id registered
\* for that alias.
C10_ParticipantDeclaration ==
    [][/\ DeclarationStep =>
            LET stmt == pairs.stmts[i]
                node == events'[Len(events')]
            IN  /\ Len(events') = Len(events) + 1
                /\ SubSeq(events', 1, Len(events)) = events
                /\ node.type = "AddNode"
                /\ node.id = TokenText(IdToken(stmt))
                /\ node.label = Some(IF HasAlias(stmt) THEN TokenText(AliasToken(stmt))
                                     ELSE TokenText(IdToken(stmt)))
                /\ node.node_type = KeywordNodeType(Keyword(stmt))
       /\ MessageStep =>
            LET stmt == pairs.stmts[i]
                edge == events'[Len(events')]
            IN  /\ edge.type = "AddEdge"
                /\ {edge.from, edge.to}
                      = {CanonicalId(pairs.stmts, i - 1, TokenText(stmt.inner[1].text)),
                         CanonicalId(pairs.stmts, i - 1, TokenText(stmt.inner[3].text))}
      ]_vars

\* an aliased declaration under a keyword outside the table, and a later
\* message that names the alias: the edge starts at the declared id
C10_Witness ==
    /\ outcome = "Ok"
    /\ Len(pairs.stmts) = 2
    /\ Keyword(pairs.stmts[1]) = <<"c","o","l","l","e","c","t","i","o","n","s">>
    /\ IdToken(pairs.stmts[1]) = <<"\"","W","e","b"," ","S","e","r","v","e","r","\"">>
    /\ HasAlias(pairs.stmts[1]) /\ AliasToken(pairs.stmts[1]) = <<"W">>
    /\ pairs.stmts[2] = Message(<<"W">>, <<"-",">">>, <<"A">>, None)
    /\ \E k \in 1..Len(result) :
          /\ result[k].type = "AddNode" /\ result[k].id = <<"W","e","b"," ","S","e","r","v","e","r">>
          /\ result[k].label = Some(<<"W">>)
          /\ result[k].node_type = [kind |-> "Actor", name |-> <<"c","o","l","l","e","c","t","i","o","n","s">>]
    /\ \E k \in 1..Len(result) :
          /\ result[k].type = "AddEdge" /\ result[k].from = <<"W","e","b"," ","S","e","r","v","e","r">>
          /\ result[k].to = <<"A">>

\* the ids that have received an AddNode in a stream
NodeIds(evs) == {evs[k].id : k \in EventsOfType(evs, "AddNode")}

\* the canonical ids of the two endpoints of the message at position n
MessageIds(stmts, n) ==
    {CanonicalId(stmts, n - 1, TokenText(stmts[n].inner[1].text)),
     CanonicalId(stmts, n - 1, TokenText(stmts[n].inner[3].text))}

\* C11: a message resolves each endpoint through the alias map (else the
\* identifier itself) and emits, directly before its AddEdge, an AddNode of
\* type Actor "participant" at the next participant order for an endpoint
\* if and only if that id has not received an AddNode before; so a message
\* between known participants emits one AddEdge alone and a self-message to
\* an unknown participant one AddNode.
C11_AutoDeclaration ==
    [][MessageStep =>
         LET ids == MessageIds(pairs.stmts, i)
             n == Len(events)
             n2 == Len(events')
         IN  /\ n2 > n
             /\ SubSeq(events', 1, n) = events
             /\ events'[n2].type = "AddEdge"
             /\ {events'[n2].from, events'[n2].to} = ids
             /\ \A k \in (n + 1)..(n2 - 1) :
                   /\ events'[k].type = "AddNode"
                   /\ events'[k].node_type = NodeTypeActor(<<"p","a","r","t","i","c","i","p","a","n","t">>)
                   /\ events'[k].properties.position
                        = Some(Sequential(Cardinality(
                              EventsOfType(SubSeq(events', 1, k - 1), "AddNode"))))
             /\ {events'[k].id : k \in (n + 1)..(n2 - 1)} = ids \ NodeIds(events)
             /\ n2 - 1 - n = Cardinality(ids \ NodeIds(events))
      ]_vars

\* a self-message to an unknown participant, then a message between two
\* participants that both have their node
C11_Witness ==
    /\ outcome = "Ok"
    /\ pairs.stmts = <<Declaration(<<"a","c","t","o","r">>, <<"U","s","e","r">>, None),
                       Message(<<"D","B">>, <<"-",">",">">>, <<"D","B">>, Some(<<" "," ">>)),
                       Message(<<"U","s","e","r">>, <<"-",">">>, <<"D","B">>, Some(<<" ","Q","u","e","r","y">>))>>
    /\ Len(result) = 7
    /\ result[4] = AddNode(<<"D","B">>, Some(<<"D","B">>), NodeTypeActor(<<"p","a","r","t","i","c","i","p","a","n","t">>),
                           sequential_properties(1))
    /\ result[5].type = "AddEdge" /\ result[5].from = <<"D","B">> /\ result[5].to = <<"D","B">>
    /\ result[6].type = "AddEdge" /\ result[6].from = <<"U","s","e","r">> /\ result[6].to = <<"D","B">>

ReversedShapes == {<<"<","-">>, <<"<","<","-">>, <<"<","-","-">>, <<"<","<","-","-">>, <<"\\","-">>}

\* C12: a message `B <arrow> A` under a reversed shape (`<-`, `<<-`, `<--`,
\* `<<--`, `\-`) emits an AddEdge from A to B, as `A -> B` does, nodes of
\* unknown participants being added in that order too, and takes one
\* sequence number as a forward message does; the bidirectional and the
\* forward shapes keep the written order.
C12_ReversedArrows ==
    [][MessageStep =>
         LET stmt == pairs.stmts[i]
             left == CanonicalId(pairs.stmts, i - 1, TokenText(stmt.inner[1].text))
             right == CanonicalId(pairs.stmts, i - 1, TokenText(stmt.inner[3].text))
             swapped == stmt.inner[2].text \in ReversedShapes
             edge == events'[Len(events')]
             added == SubSeq(events', Len(events) + 1, Len(events') - 1)
         IN  /\ edge.type = "AddEdge"
             /\ edge.from = (IF swapped THEN right ELSE left)
             /\ edge.to = (IF swapped THEN left ELSE right)
             /\ Len(added) = 2 => added[1].id = edge.from /\ added[2].id = edge.to
             /\ edge.edge_type.sequence = Some(sequence_number)
             /\ edge.id = <<"m","s","g","-">> \o to_string(sequence_number)
             /\ sequence_number' = sequence_number + 1
      ]_vars

\* `B \- A` then `A -> B`, neither declared: two edges from A to B,
\* numbered 0 and 1, after the nodes A and B
C12_Witness ==
    /\ outcome = "Ok"
    /\ pairs.stmts = <<Message(<<"B">>, <<"\\","-">>, <<"A">>, None),
                       Message(<<"A">>, <<"-",">">>, <<"B">>, Some(<<" ","m","s","g">>))>>
    /\ Len(result) = 7
    /\ result[3].type = "AddNode" /\ result[3].id = <<"A">>
    /\ result[4].type = "AddNode" /\ result[4].id = <<"B">>
    /\ \A k \in 5..6 :
          /\ result[k].type = "AddEdge"
          /\ result[k].from = <<"A">> /\ result[k].to = <<"B">>
          /\ result[k].edge_type.sequence = Some(k - 5)

HasArrowToken(c) == content_contains(c, <<"-",">">>) \/ content_contains(c, <<"-","-">>)

\* C13: a text that holds an arrow token `->` or `--` is processed by the
\* edge-based dialect (i); the nested-subgraph dialect (ii) is taken only
\* for a text that holds `subgraph` and neither `->` nor `--`; so an
\* undirected graph with `--` edges and `subgraph` blocks has its edges
\* emitted.
C13_DispatchOnArrows ==
    engine = "dot" =>
        /\ pc = "nested" => content_contains(content, <<"s","u","b","g","r","a","p","h">>) /\ ~HasArrowToken(content)
        /\ pc \in {"regular", "parse_nodes", "parse_edges"} =>
              HasArrowToken(content) \/ ~content_contains(content, <<"s","u","b","g","r","a","p","h">>)
        /\ (/\ outcome = "returned"
            /\ content_contains(content, <<"-","-">>)
            /\ content_contains(content, <<"s","u","b","g","r","a","p","h">>)
            /\ ~content_contains(content, <<"d","i","g","r","a","p","h">>))
              => \E k \in EventsOfType(result, "AddEdge") :
                    result[k].edge_type = EdgeTypeUndirected

\* C14: the from and to of an emitted edge are the endpoint identifiers,
\* trimmed, without their double quotes and without a trailing semicolon,
\* whether bare or quoted, with or without `;`, with or without an
\* attribute list on the target; so an edge between two nodes defined
\* beforehand as `"A" [...]` and `"B" [...]` names those ids and adds no
\* AddNode.
C14_EdgeEndpoints ==
    \A f \in EdgeForms :
        outcome = "returned" /\ content = EdgeFormGraph(f) =>
            LET edges == SelectType(result, "AddEdge")
            IN  /\ Len(edges) = 1
                /\ edges[1].from = <<"A">>
                /\ edges[1].to = <<"B">>
                /\ f.defined => Len(SelectType(result, "AddNode")) = 2

IsCommentOrBlank(line) == starts_with(trim(line), <<"/","/">>) \/ trim(line) = <<>>

\* C15: in dialect (i) a line whose trimmed text starts with `//`, and a
\* blank line, contributes no event, neither in the node scan nor in the
\* edge scan, also when the comment holds an attribute list or an arrow.
C15_CommentsSkipped ==
    [][(/\ engine = "dot"
        /\ pc \in {"parse_nodes", "parse_edges"}
        /\ i <= Len(content)
        /\ IsCommentOrBlank(content[i])) => events' = events]_vars

\* the line holds the arrow token of its graph, or `->`
HoldsArrow(c, line) ==
    contains(line, <<"-",">">>) \/ (~content_contains(c, <<"d","i","g","r","a","p","h">>) /\ contains(line, <<"-","-">>))

\* C16: in dialect (i) the node scan emits an AddNode only for a line
\* without an arrow token; a line holding `->`, or `--` in an undirected
\* graph, is never taken for a node definition, so `A -- B [style=dashed]`
\* yields no AddNode named by the text in front of the bracket.
C16_NoNodeFromEdgeLine ==
    [][(/\ engine = "dot"
        /\ pc = "parse_nodes"
        /\ i <= Len(content)
        /\ HoldsArrow(content, content[i])) => events' = events]_vars

\* C17: in dialect (i) arrow and direction are decided once, by whether the
\* text holds the keyword `digraph`: every AddEdge of a digraph is Directed
\* with id `from->to`, every AddEdge of any other graph is Undirected with
\* id `from--to`, no stream mixes the two, and every AddEdge has label None,
\* also when the edge line carries a label attribute.
C17_GraphWideDirection ==
    RegularDialect =>
        \A k \in EventsOfType(events, "AddEdge") :
            LET e == events[k]
            IN  /\ e.label = None
                /\ IF content_contains(content, <<"d","i","g","r","a","p","h">>)
                   THEN e.edge_type.kind = "Directed" /\ e.id = e.from \o <<"-",">">> \o e.to
                   ELSE e.edge_type.kind = "Undirected" /\ e.id = e.from \o <<"-","-">> \o e.to

\* a digraph whose edge line carries a label, next to an undirected edge
\* line that is left out
C17_Witness ==
    /\ outcome = "returned"
    /\ content = <<<<"d","i","g","r","a","p","h"," ","G"," ","{">>, <<"\"","A","\""," ","-",">"," ","\"","B","\""," ","[","l","a","b","e","l","=","\"","x","\"","]",";">>, <<"A"," ","-","-"," ","B"," ","[","s","t","y","l","e","=","d","a","s","h","e","d","]">>>>
    /\ Len(SelectType(result, "AddEdge")) = 1
    /\ SelectType(result, "AddEdge")[1].edge_type = EdgeTypeDirected
    /\ SelectType(result, "AddEdge")[1].id = <<"A","-",">","B">>
    /\ SelectType(result, "AddEdge")[1].label = None

AfterLastColon(s) == IF rfind(s, <<":">>) = NoPos THEN s ELSE trim(SliceFrom(s, rfind(s, <<":">>) + 1))

\* C19: the working label of a cluster is the label value without quotes
\* and semicolon and, if it holds colons, only the trimmed text after the
\* last colon (`label="a: b: c"` gives the node id and label `c`); a value
\* without a colon is kept whole.
C19_WorkingLabel ==
    \A f \in LabelForms :
        outcome = "returned" /\ content = LabelGraph(f) =>
            LET nodes == SelectType(result, "AddNode")
            IN  /\ Len(nodes) = 1
                /\ nodes[1].id = AfterLastColon(f.value)
                /\ nodes[1].label = Some(AfterLastColon(f.value))

\* a label line read while some cluster is open
LabelStep ==
    /\ engine = "dot" /\ pc = "nested" /\ i <= Len(content)
    /\ \/ starts_with(trim(content[i]), <<"l","a","b","e","l","=">>)
       \/ starts_with(trim(content[i]), <<"L","a","b","e","l","=">>)
    /\ Len(stack) >= 1

Mentions(label, word) == contains(to_lowercase(label), word)

ClassOf(label) ==
    CASE Mentions(label, <<"t","e","n","a","n","t">>) \/ Mentions(label, <<"o","r","g","a","n","i","z","a","t","i","o","n">>) ->
            [kind |-> "Custom", name |-> <<"o","r","g","a","n","i","z","a","t","i","o","n">>]
      [] ~(Mentions(label, <<"t","e","n","a","n","t">>) \/ Mentions(label, <<"o","r","g","a","n","i","z","a","t","i","o","n">>))
            /\ Mentions(label, <<"c","o","n","t","a","c","t"," ","c","e","n","t","e","r">>) ->
            [kind |-> "Custom", name |-> <<"l","i","n","e","_","o","f","_","b","u","s","i","n","e","s","s">>]
      [] ~(Mentions(label, <<"t","e","n","a","n","t">>) \/ Mentions(label, <<"o","r","g","a","n","i","z","a","t","i","o","n">>))
            /\ ~Mentions(label, <<"c","o","n","t","a","c","t"," ","c","e","n","t","e","r">>) /\ Mentions(label, <<"s","i","t","e">>) ->
            [kind |-> "Custom", name |-> <<"s","i","t","e">>]
      [] OTHER -> [kind |-> "Node", name |-> <<>>]

\* C20: a label line read at stack depth d >= 1 emits an AddNode whose id
\* and label are the working label, at Layer d - 1, typed by the first of:
\* tenant or organization (organization), contact center
\* (line_of_business), site (site), else Node, matched without regard to
\* case; a Directed AddEdge parent -> node with id `parent->node` follows
\* exactly when the frame below the top has an id; the node id is then
\* stored in the top frame.
C20_ClusterLabel ==
    [][LabelStep =>
         LET d == Len(stack)
             w == extract_label_value(trim(content[i]))
             node == [type |-> "AddNode", id |-> w, label |-> Some(w),
                      node_type |-> ClassOf(w),
                      properties |-> [style |-> None, position |-> Some(Layer(d - 1)),
                                      custom |-> EmptyMap]]
             has_parent == d >= 2 /\ IsSome(stack[d - 1].id)
             parent == Unwrap(stack[d - 1].id)
             edge == [type |-> "AddEdge", id |-> parent \o <<"-",">">> \o w, from |-> parent,
                      to |-> w, edge_type |-> EdgeTypeDirected, label |-> None,
                      properties |-> DefaultProperties]
         IN  /\ events' = events \o (IF has_parent THEN <<node, edge>> ELSE <<node>>)
             /\ Len(stack') = d
             /\ SubSeq(stack', 1, d - 1) = SubSeq(stack, 1, d - 1)
             /\ stack'[d].id = Some(w)
             /\ stack'[d].cluster = stack[d].cluster
      ]_vars

\* a cluster labelled `TENANT Site` and inside it one labelled
\* `Contact Center Site`: organization at layer 0, line_of_business at
\* layer 1, and the edge between them
C20_Witness ==
    /\ outcome = "returned"
    /\ content = <<<<"s","u","b","g","r","a","p","h"," ","c","l","u","s","t","e","r","_","a"," ","{">>, <<" "," "," "," ","l","a","b","e","l","=","\"","T","E","N","A","N","T"," ","S","i","t","e","\"",";">>,
                   <<" "," ","s","u","b","g","r","a","p","h"," ","c","l","u","s","t","e","r","_","b"," ","{">>, <<" "," "," "," ","L","a","b","e","l","=","C","o","n","t","a","c","t"," ","C","e","n","t","e","r"," ","S","i","t","e">>>>
    /\ Len(result) = 5
    /\ result[2].type = "AddNode"
    /\ result[2].node_type = NodeTypeCustom(<<"o","r","g","a","n","i","z","a","t","i","o","n">>)
    /\ result[2].properties.position = Some(Layer(0))
    /\ result[3].type = "AddNode" /\ result[3].id = <<"C","o","n","t","a","c","t"," ","C","e","n","t","e","r"," ","S","i","t","e">>
    /\ result[3].node_type = NodeTypeCustom(<<"l","i","n","e","_","o","f","_","b","u","s","i","n","e","s","s">>)
    /\ result[3].properties.position = Some(Layer(1))
    /\ result[4].type = "AddEdge" /\ result[4].from = result[2].id
    /\ result[4].to = <<"C","o","n","t","a","c","t"," ","C","e","n","t","e","r"," ","S","i","t","e">>

\* a leaf line: an attribute list with `label=`, no arrow, not a subgraph
\* header, and not a label line of an open cluster
LeafStep ==
    /\ engine = "dot" /\ pc = "nested" /\ i <= Len(content)
    /\ LET trimmed == trim(content[i])
       IN  /\ ~starts_with(trimmed, <<"s","u","b","g","r","a","p","h">>)
           /\ ~((starts_with(trimmed, <<"l","a","b","e","l","=">>) \/ starts_with(trimmed, <<"L","a","b","e","l","=">>))
                /\ stack # <<>>)
           /\ contains(trimmed, <<"[">>) /\ contains(trimmed, <<"l","a","b","e","l","=">>)
           /\ ~contains(trimmed, <<"-",">">>)

\* the text in front of the bracket, trimmed and unquoted
NodeIdentifier(trimmed) == trim_matches(trim(Slice(trimmed, 0, find(trimmed, <<"[">>))), "\"")

\* the text inside the first `label="..."`, escaped newlines as spaces,
\* trimmed; the node identifier if the line has no quoted label
QuotedLabel(trimmed) ==
    IF find(trimmed, <<"l","a","b","e","l","=","\"">>) = NoPos THEN NodeIdentifier(trimmed)
    ELSE LET rest == SliceFrom(trimmed, find(trimmed, <<"l","a","b","e","l","=","\"">>) + 7)
         IN  IF find(rest, <<"\"">>) = NoPos THEN NodeIdentifier(trimmed)
             ELSE trim(replace(Slice(rest, 0, find(rest, <<"\"">>)), <<"\\","n">>, <<" ">>))

\* C21: a leaf line read at stack depth d emits an AddNode whose id and
\* label are the text inside the first quoted `label="..."` (escaped `\n`
\* as a space, trimmed; the node identifier when there is no quoted label),
\* at Layer d, typed Custom("team") if the label holds `supervisor` in any
\* case and Custom("user") otherwise; a Directed edge from the top frame's
\* id follows exactly when that frame has one; the stack stays as it is.
C21_LeafNode ==
    [][LeafStep =>
         LET d == Len(stack)
             w == QuotedLabel(trim(content[i]))
             node == [type |-> "AddNode", id |-> w, label |-> Some(w),
                      node_type |-> [kind |-> "Custom",
                                     name |-> IF Mentions(w, <<"s","u","p","e","r","v","i","s","o","r">>)
                                              THEN <<"t","e","a","m">> ELSE <<"u","s","e","r">>],
                      properties |-> [style |-> None, position |-> Some(Layer(d)),
                                      custom |-> EmptyMap]]
             has_parent == d >= 1 /\ IsSome(stack[d].id)
             parent == Unwrap(stack[d].id)
             edge == [type |-> "AddEdge", id |-> parent \o <<"-",">">> \o w, from |-> parent,
                      to |-> w, edge_type |-> EdgeTypeDirected, label |-> None,
                      properties |-> DefaultProperties]
         IN  /\ events' = events \o (IF has_parent THEN <<node, edge>> ELSE <<node>>)
             /\ stack' = stack
      ]_vars

\* the blocks still open after some lines, innermost last: the name of a
\* `cluster_` subgraph, the empty name for any other block; a line that is
\* exactly `}` closes the innermost open block
RECURSIVE OpenBlocks(_, _)
OpenBlocks(lines, n) ==
    IF n = 0 THEN <<>>
    ELSE LET before == OpenBlocks(lines, n - 1)
             trimmed == trim(lines[n])
         IN  IF contains(trimmed, <<"{">>)
             THEN Append(before,
                         IF starts_with(trimmed, <<"s","u","b","g","r","a","p","h">>) /\ contains(trimmed, <<"c","l","u","s","t","e","r","_">>)
                         THEN split_whitespace_first(
                                  SliceFrom(trimmed, find(trimmed, <<"c","l","u","s","t","e","r","_">>)))
                         ELSE <<>>)
             ELSE IF trimmed = <<"}">> /\ before # <<>>
             THEN SubSeq(before, 1, Len(before) - 1)
             ELSE before

OpenClusters(lines, n) == SelectSeq(OpenBlocks(lines, n), LAMBDA name : name # <<>>)

\* C22: the cluster stack mirrors the brace nesting of the text: after any
\* prefix of lines it holds exactly the `cluster_` subgraphs still open,
\* also when the text has subgraph headers without `cluster_`, whose
\* closing brace closes no cluster frame, and the closing brace of the
\* outer block.
C22_StackMirrorsBraces ==
    (engine = "dot" /\ pc = "nested") =>
        [k \in 1..Len(stack) |-> stack[k].cluster] = OpenClusters(content, i - 1)

\* C23: a `cluster_` frame yields at most one AddNode: the first label line
\* after the frame is opened resolves it, and a further label line read
\* while the same frame is on top, for instance after a nested cluster has
\* closed, emits no second AddNode and leaves the frame's id as it is.
C23_OneNodePerFrame ==
    [][(LabelStep /\ IsSome(stack[Len(stack)].id)) =>
           (events' = events /\ stack' = stack)]_vars

\* C24: every Ok output of the PlantUML parse has as its second event,
\* directly after BatchStart, the SetLayout Sequential LeftToRight with
\* default properties, and no other SetLayout, whatever the diagram holds,
\* the empty diagram included.
C24_SequentialLayout ==
    outcome = "Ok" =>
        /\ Len(result) >= 2
        /\ result[1] = [type |-> "BatchStart"]
        /\ result[2] = [type |-> "SetLayout",
                        layout_type |-> [kind |-> "Sequential", direction |-> "LeftToRight"],
                        properties |-> [style |-> None, position |-> None,
                                        custom |-> EmptyMap]]
        /\ EventsOfType(result, "SetLayout") = {2}

\* the empty diagram: the batch holds the layout hint alone
C24_Witness ==
    /\ outcome = "Ok"
    /\ pairs.stmts = <<>>
    /\ Len(result) = 3
    /\ result[2].type = "SetLayout"
    /\ result[3] = BatchEnd

SynchronousTokens == {<<"-",">">>, <<"<","-">>, <<"<","-",">">>, <<"-","\\">>, <<"\\","-">>, <<"\\","\\">>}
AsynchronousTokens == {<<"-",">",">">>, <<"<","<","-">>}
ReturnTokens == {<<"-","-",">">>, <<"-","-",">",">">>, <<"<","-","-">>, <<"<","<","-","-">>, <<"<","-","-",">">>}
AcceptedTokens == SynchronousTokens \cup AsynchronousTokens \cup ReturnTokens

\* C25: parse_arrow accepts exactly 13 tokens, and the message type of the
\* edge is a function of the token: `->`, `<-`, `<->`, `-\`, `\-`, `\\`
\* give Synchronous, `->>`, `<<-` Asynchronous, `-->`, `-->>`, `<--`,
\* `<<--`, `<-->` Return; Create and Destroy never occur.
C25_ArrowTable ==
    outcome \in {"Ok", "Err"} =>
        LET tokens == [k \in 1..Len(pairs.stmts) |-> ArrowToken(pairs.stmts[k])]
            edges == SelectType(result, "AddEdge")
        IN  /\ Cardinality(AcceptedTokens) = 13
            /\ outcome = "Ok" <=> \A k \in 1..Len(tokens) : tokens[k] \in AcceptedTokens
            /\ outcome = "Ok" =>
                  /\ Len(edges) = Len(tokens)
                  /\ \A k \in 1..Len(tokens) :
                        edges[k].edge_type.message_type
                          = (CASE tokens[k] \in SynchronousTokens -> "Synchronous"
                               [] tokens[k] \in AsynchronousTokens -> "Asynchronous"
                               [] tokens[k] \in ReturnTokens -> "Return")

\* `A -->> B` then `A \\ B`: a Return and a Synchronous edge
C25_Witness ==
    /\ outcome = "Ok"
    /\ pairs.stmts = <<Message(<<"A">>, <<"-","-",">",">">>, <<"B">>, None), Message(<<"A">>, <<"\\","\\">>, <<"B">>, None)>>
    /\ SelectType(result, "AddEdge")[1].edge_type.message_type = "Return"
    /\ SelectType(result, "AddEdge")[2].edge_type.message_type = "Synchronous"

\* C26: in every Ok output of the PlantUML parse the k-th AddEdge, counted
\* from 0, has id `msg-k` and edge type Message with sequence k: the
\* numbers start at 0 and rise by one per message without gap or repeat,
\* the ids are pairwise distinct, and declarations, auto-declared
\* participants, activations and deactivations take no number.
C26_SequenceNumbers ==
    outcome = "Ok" =>
        LET edges == SelectType(result, "AddEdge")
        IN  /\ \A k \in 1..Len(edges) :
                  /\ edges[k].id = <<"m","s","g","-">> \o to_string(k - 1)
                  /\ edges[k].edge_type.kind = "Message"
                  /\ edges[k].edge_type.sequence = Some(k - 1)
            /\ \A j, k \in 1..Len(edges) : j # k => edges[j].id # edges[k].id

\* two messages with an activation between them, all participants
\* auto-declared but one
C26_Witness ==
    /\ outcome = "Ok"
    /\ pairs.stmts = <<Message(<<"U","s","e","r">>, <<"-",">">>, <<"W","e","b">>, Some(<<" ","H","T","T","P"," ","R","e","q","u","e","s","t"," ">>)),
                       Activation(<<"W","e","b">>),
                       Message(<<"W","e","b">>, <<"<","-","-">>, <<"D","B">>, None)>>
    /\ Len(SelectType(result, "AddEdge")) = 2
    /\ SelectType(result, "AddEdge")[2].id = <<"m","s","g","-","1">>
    /\ Len(SelectType(result, "AddNode")) = 3

\* C27: a participant's Sequential order is assigned once, at its first
\* mention: in every Ok output of the PlantUML parse the k-th AddNode,
\* counted from 0, has position Sequential(k), and no two AddNode events
\* carry the same id, so a later declaration of an id that is already
\* known (declared, or auto-created by a message) emits no second AddNode
\* and gives the id no new order.
C27_OrderAssignedOnce ==
    (engine = "plantuml" /\ outcome = "Ok") =>
        LET nodes == SelectType(result, "AddNode")
        IN  /\ \A k \in 1..Len(nodes) :
                  nodes[k].properties.position = Some(Sequential(k - 1))
            /\ \A j, k \in 1..Len(nodes) : j # k => nodes[j].id # nodes[k].id

\* an activation or deactivation statement is processed
ActivationStep ==
    /\ pc = "content" /\ i <= Len(pairs.stmts) /\ i' = i + 1
    /\ pairs.stmts[i].rule \in {"activation", "deactivation"}

\* C28: an `activate X` (`deactivate X`) statement emits exactly one
\* UpdateNode, with id X as written (the alias map is not consulted), label
\* None, no style, no position and custom = {"activated": "true"}
\* ("false"); it emits no AddNode or AddEdge and leaves participant_order,
\* sequence_number, the alias map and the known-id set unchanged.
C28_ActivationUpdate ==
    [][ActivationStep =>
          LET s == pairs.stmts[i]
              flag == IF s.rule = "activation" THEN <<"t","r","u","e">> ELSE <<"f","a","l","s","e">>
          IN  /\ Len(events') = Len(events) + 1
              /\ SubSeq(events', 1, Len(events)) = events
              /\ events'[Len(events')] =
                     [type |-> "UpdateNode",
                      id |-> TokenText(s.inner[1].text),
                      label |-> None,
                      properties |-> [style |-> None, position |-> None,
                                      custom |-> [k \in {<<"a","c","t","i","v","a","t","e","d">>} |-> flag]]]
              /\ UNCHANGED <<participant_order, sequence_number,
                             participants, known_ids>>]_vars

\* `activate Web` is processed after `participant "Web Server" as Web`, so
\* the alias map holds Web, and the update targets Web itself
C28_Witness ==
    /\ pc = "content" /\ i = 3
    /\ pairs.stmts[1] = Declaration(<<"p","a","r","t","i","c","i","p","a","n","t">>, <<"\"","W","e","b"," ","S","e","r","v","e","r","\"">>, Some(<<"W","e","b">>))
    /\ pairs.stmts[2] = Activation(<<"W","e","b">>)
    /\ events[Len(events)].type = "UpdateNode"
    /\ events[Len(events)].id = <<"W","e","b">>
    /\ <<"W","e","b">> \in DOMAIN participants

\* C29: in every Ok output of the PlantUML parse each UpdateNode targets
\* the id of an AddNode that occurs earlier in the stream, also when the
\* statement names a participant by its alias or names a participant that
\* was never declared or used in a message.
C29_UpdateTargetsKnownNode ==
    (engine = "plantuml" /\ outcome = "Ok") =>
        \A k \in EventsOfType(result, "UpdateNode") :
            \E j \in 1..(k - 1) :
                /\ result[j].type = "AddNode"
                /\ result[j].id = result[k].id

\* s holds whitespace only
Blank(s) == \A k \in 1..Len(s) : s[k] \in WhiteSpace

\* t is s without the whitespace at its two ends
Stripped(s, t) ==
    /\ t # <<>>
    /\ Head(t) \notin WhiteSpace
    /\ t[Len(t)] \notin WhiteSpace
    /\ \E a \in 0..Len(s) :
           /\ a + Len(t) <= Len(s)
           /\ SubSeq(s, a + 1, a + Len(t)) = t
           /\ Blank(SubSeq(s, 1, a))
           /\ Blank(SubSeq(s, a + Len(t) + 1, Len(s)))

\* C30: the label of a message edge is Some(text), text being the message
\* text without its surrounding whitespace, exactly when the message has a
\* label part whose text is not empty after trimming; a message without a
\* label part, or with an empty or whitespace-only one, has label None.
C30_MessageLabel ==
    [][MessageStep =>
          LET s == pairs.stmts[i]
              edge == events'[Len(events')]
              present == Len(s.inner) = 4
          IN  /\ edge.type = "AddEdge"
              /\ edge.label # Some(<<>>)
              /\ IF present /\ ~Blank(s.inner[4].text)
                 THEN /\ IsSome(edge.label)
                      /\ Stripped(s.inner[4].text, Unwrap(edge.label))
                 ELSE edge.label = None]_vars

\* a labelled message whose text loses its surrounding blanks, followed by
\* one whose label part is blank only
C30_Witness ==
    /\ outcome = "Ok"
    /\ pairs.stmts = <<Message(<<"U","s","e","r">>, <<"-",">">>, <<"W","e","b">>, Some(<<" ","H","T","T","P"," ","R","e","q","u","e","s","t"," ">>)),
                       Message(<<"D","B">>, <<"-",">",">">>, <<"D","B">>, Some(<<" "," ">>))>>
    /\ SelectType(result, "AddEdge")[1].label = Some(<<"H","T","T","P"," ","R","e","q","u","e","s","t">>)
    /\ SelectType(result, "AddEdge")[2].label = None

====
